---- MODULE Spec2Model ----
(***************************************************************************)
(* Model of the Safe Harbor 2025 tax calculator: the calculation core of   *)
(* client/src/lib (calculateSelfEmploymentTax, calculateIncomeTax,         *)
(* calculateSafeHarbor, calculateTaxes) and the module-level tables it     *)
(* reads.                                                                  *)
(*                                                                         *)
(* Numbers.  The source computes in JavaScript numbers.  Every input the   *)
(* calculator component passes is a whole number of dollars and every rate *)
(* is a short decimal literal, so each quantity is a decimal fraction with *)
(* at most 13 fractional digits.  A number is modelled here as that exact  *)
(* decimal: a sign and a magnitude of five base-100000 limbs, least        *)
(* significant first, counting units of 10^-15 dollar.  Infinity (the last *)
(* bracket's max) is the number with the empty magnitude.                  *)
(***************************************************************************)
EXTENDS Integers, Sequences, FiniteSets, TLC

(***************************************************************************)
(* State.  TAX_CONSTANTS_2025 and TAX_BRACKETS_2025 are the two            *)
(* module-level objects every calculator reads ("as const" is a            *)
(* compile-time annotation: at run time they are ordinary objects).  last  *)
(* is the most recent call of an exported calculator: its name, its        *)
(* arguments as the caller holds them after the call, and what it          *)
(* returned.                                                               *)
(***************************************************************************)
VARIABLES TAX_CONSTANTS_2025, TAX_BRACKETS_2025, last, localStorage, storedValue

vars == <<TAX_CONSTANTS_2025, TAX_BRACKETS_2025, last, localStorage, storedValue>>

Base == 10^5

ZeroMag == <<0, 0, 0, 0, 0>>

Zero == [neg |-> FALSE, mag |-> ZeroMag]

Infinity == [neg |-> FALSE, mag |-> <<>>]

IsInfinity(a) == a.mag = <<>>

\* A whole number of dollars, -(10^9) < n < 10^9, as a number.
FromInt(n) ==
  LET m == IF n < 0 THEN 0 - n ELSE n
  IN  [neg |-> n < 0, mag |-> <<0, 0, 0, m % Base, m \div Base>>]

RECURSIVE MagAddFrom(_, _, _, _)
MagAddFrom(a, b, i, carry) ==
  IF i > Len(a) THEN <<>>
  ELSE LET s == a[i] + b[i] + carry
       IN  <<s % Base>> \o MagAddFrom(a, b, i + 1, s \div Base)

MagAdd(a, b) == MagAddFrom(a, b, 1, 0)

\* a - b for magnitudes with a >= b.
RECURSIVE MagSubFrom(_, _, _, _)
MagSubFrom(a, b, i, borrow) ==
  IF i > Len(a) THEN <<>>
  ELSE LET d == a[i] - b[i] - borrow
       IN  <<d % Base>> \o MagSubFrom(a, b, i + 1, IF d < 0 THEN 1 ELSE 0)

MagSub(a, b) == MagSubFrom(a, b, 1, 0)

\* -1, 0 or 1 as a < b, a = b, a > b, deciding from limb i downwards.
RECURSIVE MagCmpFrom(_, _, _)
MagCmpFrom(a, b, i) ==
  IF i = 0 THEN 0
  ELSE IF a[i] < b[i] THEN 0 - 1
  ELSE IF a[i] > b[i] THEN 1
  ELSE MagCmpFrom(a, b, i - 1)

MagCmp(a, b) == MagCmpFrom(a, b, Len(a))

RECURSIVE MagMulFrom(_, _, _, _)
MagMulFrom(a, k, i, carry) ==
  IF i > Len(a) THEN <<>>
  ELSE LET p == a[i] * k + carry
       IN  <<p % Base>> \o MagMulFrom(a, k, i + 1, p \div Base)

\* a * k for a small natural k.
MagMul(a, k) == MagMulFrom(a, k, 1, 0)

RECURSIVE MagDivFrom(_, _, _, _)
MagDivFrom(a, k, i, rem) ==
  IF i = 0 THEN <<>>
  ELSE LET n == rem * Base + a[i]
       IN  MagDivFrom(a, k, i - 1, n % k) \o <<n \div k>>

\* a / k for a small positive k (every division of the model is exact).
MagDiv(a, k) == MagDivFrom(a, k, Len(a), 0)

Norm(neg, mag) == [neg |-> neg /\ mag # ZeroMag, mag |-> mag]

Neg(a) == Norm(~a.neg, a.mag)

Add(a, b) ==
  IF a.neg = b.neg THEN Norm(a.neg, MagAdd(a.mag, b.mag))
  ELSE IF MagCmp(a.mag, b.mag) >= 0 THEN Norm(a.neg, MagSub(a.mag, b.mag))
  ELSE Norm(b.neg, MagSub(b.mag, a.mag))

Sub(a, b) == Add(a, Neg(b))

\* -1, 0 or 1 as a < b, a = b, a > b.
Cmp(a, b) ==
  IF IsInfinity(a) \/ IsInfinity(b)
    THEN (IF IsInfinity(a) THEN 1 ELSE 0) - (IF IsInfinity(b) THEN 1 ELSE 0)
  ELSE IF a.neg # b.neg THEN (IF a.neg THEN 0 - 1 ELSE 1)
  ELSE IF a.neg THEN MagCmp(b.mag, a.mag)
  ELSE MagCmp(a.mag, b.mag)

Lt(a, b) == Cmp(a, b) < 0

Le(a, b) == Cmp(a, b) <= 0

\* Math.min, Math.max, Math.abs
Min(a, b) == IF Le(a, b) THEN a ELSE b

Max(a, b) == IF Le(a, b) THEN b ELSE a

Abs(a) == [neg |-> FALSE, mag |-> a.mag]

\* a * r for a rate r = r.num / r.den, the decimal literal of the source.
Mul(a, r) ==
  IF IsInfinity(a) THEN Infinity
  ELSE Norm(a.neg, MagDiv(MagMul(a.mag, r.num), r.den))

Rate(num, den) == [num |-> num, den |-> den]


FilingStatus == {"single", "married"}

\* 2025 Tax Year Constants: the value the module-level object is created with.
TaxConstants2025 ==
  [ standardDeduction |-> [single |-> FromInt(15750), married |-> FromInt(31500)],
    socialSecurityWageBase |-> FromInt(176100),
    socialSecurityRate |-> Rate(124, 1000),
    medicareRate |-> Rate(29, 1000),
    additionalMedicareRate |-> Rate(9, 1000),
    additionalMedicareThreshold |->
      [single |-> FromInt(200000), married |-> FromInt(250000)],
    seTaxDeductionRate |-> Rate(5, 10),
    safeHarborHighIncomeThreshold |-> FromInt(150000),
    safeHarborHighIncomeMultiplier |-> Rate(11, 10),
    safeHarborStandardMultiplier |-> Rate(10, 10),
    currentYearAvoidanceMultiplier |-> Rate(9, 10) ]

Bracket(min, max, rate) == [min |-> min, max |-> max, rate |-> rate]

\* The table with a mistyped lower bound: the single 12% bracket starts at
\* 11925, inside the 10% bracket.
TaxBrackets2025Overlap ==
  [ single |->
      << Bracket(FromInt(0), FromInt(11925), Rate(10, 100)),
         Bracket(FromInt(11925), FromInt(48475), Rate(12, 100)),
         Bracket(FromInt(48476), FromInt(103350), Rate(22, 100)),
         Bracket(FromInt(103351), FromInt(197300), Rate(24, 100)),
         Bracket(FromInt(197301), FromInt(250525), Rate(32, 100)),
         Bracket(FromInt(250526), FromInt(626350), Rate(35, 100)),
         Bracket(FromInt(626351), Infinity, Rate(37, 100)) >>,
    married |->
      << Bracket(FromInt(0), FromInt(23850), Rate(10, 100)),
         Bracket(FromInt(23851), FromInt(96950), Rate(12, 100)),
         Bracket(FromInt(96951), FromInt(206700), Rate(22, 100)),
         Bracket(FromInt(206701), FromInt(394600), Rate(24, 100)),
         Bracket(FromInt(394601), FromInt(501050), Rate(32, 100)),
         Bracket(FromInt(501051), FromInt(751600), Rate(35, 100)),
         Bracket(FromInt(751601), Infinity, Rate(37, 100)) >> ]

\* 2025 Income Tax Brackets: the value the module-level object is created with.
TaxBrackets2025 ==
  [ single |->
      << Bracket(FromInt(0), FromInt(11925), Rate(10, 100)),
         Bracket(FromInt(11926), FromInt(48475), Rate(12, 100)),
         Bracket(FromInt(48476), FromInt(103350), Rate(22, 100)),
         Bracket(FromInt(103351), FromInt(197300), Rate(24, 100)),
         Bracket(FromInt(197301), FromInt(250525), Rate(32, 100)),
         Bracket(FromInt(250526), FromInt(626350), Rate(35, 100)),
         Bracket(FromInt(626351), Infinity, Rate(37, 100)) >>,
    married |->
      << Bracket(FromInt(0), FromInt(23850), Rate(10, 100)),
         Bracket(FromInt(23851), FromInt(96950), Rate(12, 100)),
         Bracket(FromInt(96951), FromInt(206700), Rate(22, 100)),
         Bracket(FromInt(206701), FromInt(394600), Rate(24, 100)),
         Bracket(FromInt(394601), FromInt(501050), Rate(32, 100)),
         Bracket(FromInt(501051), FromInt(751600), Rate(35, 100)),
         Bracket(FromInt(751601), Infinity, Rate(37, 100)) >> ]

\* calculateSelfEmploymentTax with additionalMedicareTax left out of the total.
calculateSelfEmploymentTaxTwoParts(netProfit, filingStatus) ==
  LET seTaxableEarnings == Mul(netProfit, Rate(9235, 10000))
      socialSecurityTaxable ==
        Min(seTaxableEarnings, TAX_CONSTANTS_2025.socialSecurityWageBase)
      socialSecurityTax ==
        Mul(socialSecurityTaxable, TAX_CONSTANTS_2025.socialSecurityRate)
      medicareTax == Mul(seTaxableEarnings, TAX_CONSTANTS_2025.medicareRate)
      additionalMedicareThreshold ==
        TAX_CONSTANTS_2025.additionalMedicareThreshold[filingStatus]
      additionalMedicareTaxable ==
        Max(Zero, Sub(seTaxableEarnings, additionalMedicareThreshold))
      additionalMedicareTax ==
        Mul(additionalMedicareTaxable, TAX_CONSTANTS_2025.additionalMedicareRate)
      totalSETax == Add(socialSecurityTax, medicareTax)
      seTaxDeduction == Mul(totalSETax, TAX_CONSTANTS_2025.seTaxDeductionRate)
  IN  [ socialSecurityTax |-> socialSecurityTax,
        medicareTax |-> medicareTax,
        additionalMedicareTax |-> additionalMedicareTax,
        totalSETax |-> totalSETax,
        seTaxDeduction |-> seTaxDeduction ]

\* calculateSelfEmploymentTax without the wage-base cap.
calculateSelfEmploymentTaxUncapped(netProfit, filingStatus) ==
  LET seTaxableEarnings == Mul(netProfit, Rate(9235, 10000))
      socialSecurityTaxable == seTaxableEarnings
      socialSecurityTax ==
        Mul(socialSecurityTaxable, TAX_CONSTANTS_2025.socialSecurityRate)
      medicareTax == Mul(seTaxableEarnings, TAX_CONSTANTS_2025.medicareRate)
      additionalMedicareThreshold ==
        TAX_CONSTANTS_2025.additionalMedicareThreshold[filingStatus]
      additionalMedicareTaxable ==
        Max(Zero, Sub(seTaxableEarnings, additionalMedicareThreshold))
      additionalMedicareTax ==
        Mul(additionalMedicareTaxable, TAX_CONSTANTS_2025.additionalMedicareRate)
      totalSETax == Add(Add(socialSecurityTax, medicareTax), additionalMedicareTax)
      seTaxDeduction == Mul(totalSETax, TAX_CONSTANTS_2025.seTaxDeductionRate)
  IN  [ socialSecurityTax |-> socialSecurityTax,
        medicareTax |-> medicareTax,
        additionalMedicareTax |-> additionalMedicareTax,
        totalSETax |-> totalSETax,
        seTaxDeduction |-> seTaxDeduction ]

\* calculateSelfEmploymentTax with the additional rate on all earnings once over the threshold.
calculateSelfEmploymentTaxCliff(netProfit, filingStatus) ==
  LET seTaxableEarnings == Mul(netProfit, Rate(9235, 10000))
      socialSecurityTaxable ==
        Min(seTaxableEarnings, TAX_CONSTANTS_2025.socialSecurityWageBase)
      socialSecurityTax ==
        Mul(socialSecurityTaxable, TAX_CONSTANTS_2025.socialSecurityRate)
      medicareTax == Mul(seTaxableEarnings, TAX_CONSTANTS_2025.medicareRate)
      additionalMedicareThreshold ==
        TAX_CONSTANTS_2025.additionalMedicareThreshold[filingStatus]
      additionalMedicareTaxable ==
        IF Lt(additionalMedicareThreshold, seTaxableEarnings)
          THEN seTaxableEarnings ELSE Zero
      additionalMedicareTax ==
        Mul(additionalMedicareTaxable, TAX_CONSTANTS_2025.additionalMedicareRate)
      totalSETax == Add(Add(socialSecurityTax, medicareTax), additionalMedicareTax)
      seTaxDeduction == Mul(totalSETax, TAX_CONSTANTS_2025.seTaxDeductionRate)
  IN  [ socialSecurityTax |-> socialSecurityTax,
        medicareTax |-> medicareTax,
        additionalMedicareTax |-> additionalMedicareTax,
        totalSETax |-> totalSETax,
        seTaxDeduction |-> seTaxDeduction ]

\* calculateSelfEmploymentTax with Math.max where the source caps with Math.min.
calculateSelfEmploymentTaxAtLeastBase(netProfit, filingStatus) ==
  LET seTaxableEarnings == Mul(netProfit, Rate(9235, 10000))
      socialSecurityTaxable ==
        Max(seTaxableEarnings, TAX_CONSTANTS_2025.socialSecurityWageBase)
      socialSecurityTax ==
        Mul(socialSecurityTaxable, TAX_CONSTANTS_2025.socialSecurityRate)
      medicareTax == Mul(seTaxableEarnings, TAX_CONSTANTS_2025.medicareRate)
      additionalMedicareThreshold ==
        TAX_CONSTANTS_2025.additionalMedicareThreshold[filingStatus]
      additionalMedicareTaxable ==
        Max(Zero, Sub(seTaxableEarnings, additionalMedicareThreshold))
      additionalMedicareTax ==
        Mul(additionalMedicareTaxable, TAX_CONSTANTS_2025.additionalMedicareRate)
      totalSETax == Add(Add(socialSecurityTax, medicareTax), additionalMedicareTax)
      seTaxDeduction == Mul(totalSETax, TAX_CONSTANTS_2025.seTaxDeductionRate)
  IN  [ socialSecurityTax |-> socialSecurityTax,
        medicareTax |-> medicareTax,
        additionalMedicareTax |-> additionalMedicareTax,
        totalSETax |-> totalSETax,
        seTaxDeduction |-> seTaxDeduction ]

\* calculateSelfEmploymentTax without Math.max(0, ...) on the earnings over the threshold.
calculateSelfEmploymentTaxNoFloor(netProfit, filingStatus) ==
  LET seTaxableEarnings == Mul(netProfit, Rate(9235, 10000))
      socialSecurityTaxable ==
        Min(seTaxableEarnings, TAX_CONSTANTS_2025.socialSecurityWageBase)
      socialSecurityTax ==
        Mul(socialSecurityTaxable, TAX_CONSTANTS_2025.socialSecurityRate)
      medicareTax == Mul(seTaxableEarnings, TAX_CONSTANTS_2025.medicareRate)
      additionalMedicareThreshold ==
        TAX_CONSTANTS_2025.additionalMedicareThreshold[filingStatus]
      additionalMedicareTaxable ==
        Sub(seTaxableEarnings, additionalMedicareThreshold)
      additionalMedicareTax ==
        Mul(additionalMedicareTaxable, TAX_CONSTANTS_2025.additionalMedicareRate)
      totalSETax == Add(Add(socialSecurityTax, medicareTax), additionalMedicareTax)
      seTaxDeduction == Mul(totalSETax, TAX_CONSTANTS_2025.seTaxDeductionRate)
  IN  [ socialSecurityTax |-> socialSecurityTax,
        medicareTax |-> medicareTax,
        additionalMedicareTax |-> additionalMedicareTax,
        totalSETax |-> totalSETax,
        seTaxDeduction |-> seTaxDeduction ]

\* Calculate Self-Employment Tax
calculateSelfEmploymentTax(netProfit, filingStatus) ==
  LET seTaxableEarnings == Mul(netProfit, Rate(9235, 10000))
      socialSecurityTaxable ==
        Min(seTaxableEarnings, TAX_CONSTANTS_2025.socialSecurityWageBase)
      socialSecurityTax ==
        Mul(socialSecurityTaxable, TAX_CONSTANTS_2025.socialSecurityRate)
      medicareTax == Mul(seTaxableEarnings, TAX_CONSTANTS_2025.medicareRate)
      additionalMedicareThreshold ==
        TAX_CONSTANTS_2025.additionalMedicareThreshold[filingStatus]
      additionalMedicareTaxable ==
        Max(Zero, Sub(seTaxableEarnings, additionalMedicareThreshold))
      additionalMedicareTax ==
        Mul(additionalMedicareTaxable, TAX_CONSTANTS_2025.additionalMedicareRate)
      totalSETax == Add(Add(socialSecurityTax, medicareTax), additionalMedicareTax)
      seTaxDeduction == Mul(totalSETax, TAX_CONSTANTS_2025.seTaxDeductionRate)
  IN  [ socialSecurityTax |-> socialSecurityTax,
        medicareTax |-> medicareTax,
        additionalMedicareTax |-> additionalMedicareTax,
        totalSETax |-> totalSETax,
        seTaxDeduction |-> seTaxDeduction ]

\* bracket.max - bracket.min + 1 (Infinity for the last bracket)
bracketSize(bracket) ==
  IF IsInfinity(bracket.max) THEN Infinity
  ELSE Add(Sub(bracket.max, bracket.min), FromInt(1))

\* The loop stopping one bracket early (i < brackets.length - 1).
RECURSIVE BracketLoopShort(_, _, _, _, _)
BracketLoopShort(brackets, i, remainingIncome, totalTax, bracketDetails) ==
  IF i >= Len(brackets) \/ Le(remainingIncome, Zero)
    THEN [totalTax |-> totalTax, bracketDetails |-> bracketDetails]
  ELSE LET bracket == brackets[i]
           taxableAtRate == Min(remainingIncome, bracketSize(bracket))
           taxAtRate == Mul(taxableAtRate, bracket.rate)
       IN  BracketLoopShort(
             brackets, i + 1,
             Sub(remainingIncome, taxableAtRate),
             Add(totalTax, taxAtRate),
             IF Lt(Zero, taxableAtRate)
               THEN Append(bracketDetails,
                           [ rate |-> bracket.rate,
                             taxableAtRate |-> taxableAtRate,
                             taxAtRate |-> taxAtRate ])
               ELSE bracketDetails)

\* The loop with totalTax = taxAtRate where the source has +=.
RECURSIVE BracketLoopAssign(_, _, _, _, _)
BracketLoopAssign(brackets, i, remainingIncome, totalTax, bracketDetails) ==
  IF i > Len(brackets) \/ Le(remainingIncome, Zero)
    THEN [totalTax |-> totalTax, bracketDetails |-> bracketDetails]
  ELSE LET bracket == brackets[i]
           taxableAtRate == Min(remainingIncome, bracketSize(bracket))
           taxAtRate == Mul(taxableAtRate, bracket.rate)
       IN  BracketLoopAssign(
             brackets, i + 1,
             Sub(remainingIncome, taxableAtRate),
             taxAtRate,
             IF Lt(Zero, taxableAtRate)
               THEN Append(bracketDetails,
                           [ rate |-> bracket.rate,
                             taxableAtRate |-> taxableAtRate,
                             taxAtRate |-> taxAtRate ])
               ELSE bracketDetails)

\* The loop with < 0 and >= 0 where the source tests <= 0 and > 0.
RECURSIVE BracketLoopZeroEntries(_, _, _, _, _)
BracketLoopZeroEntries(brackets, i, remainingIncome, totalTax, bracketDetails) ==
  IF i > Len(brackets) \/ Lt(remainingIncome, Zero)
    THEN [totalTax |-> totalTax, bracketDetails |-> bracketDetails]
  ELSE LET bracket == brackets[i]
           taxableAtRate == Min(remainingIncome, bracketSize(bracket))
           taxAtRate == Mul(taxableAtRate, bracket.rate)
       IN  BracketLoopZeroEntries(
             brackets, i + 1,
             Sub(remainingIncome, taxableAtRate),
             Add(totalTax, taxAtRate),
             IF Le(Zero, taxableAtRate)
               THEN Append(bracketDetails,
                           [ rate |-> bracket.rate,
                             taxableAtRate |-> taxableAtRate,
                             taxAtRate |-> taxAtRate ])
               ELSE bracketDetails)

\* The loop of calculateIncomeTax over brackets[i..], with its three locals.
RECURSIVE BracketLoop(_, _, _, _, _)
BracketLoop(brackets, i, remainingIncome, totalTax, bracketDetails) ==
  IF i > Len(brackets) \/ Le(remainingIncome, Zero)
    THEN [totalTax |-> totalTax, bracketDetails |-> bracketDetails]
  ELSE LET bracket == brackets[i]
           taxableAtRate == Min(remainingIncome, bracketSize(bracket))
           taxAtRate == Mul(taxableAtRate, bracket.rate)
       IN  BracketLoop(
             brackets, i + 1,
             Sub(remainingIncome, taxableAtRate),
             Add(totalTax, taxAtRate),
             IF Lt(Zero, taxableAtRate)
               THEN Append(bracketDetails,
                           [ rate |-> bracket.rate,
                             taxableAtRate |-> taxableAtRate,
                             taxAtRate |-> taxAtRate ])
               ELSE bracketDetails)

\* calculateIncomeTax with the SE tax deduction not subtracted.
calculateIncomeTaxNoDeduction(netProfit, seTaxDeduction, filingStatus) ==
  LET standardDeduction == TAX_CONSTANTS_2025.standardDeduction[filingStatus]
      brackets == TAX_BRACKETS_2025[filingStatus]
      agi == netProfit
      taxableIncome == Max(Zero, Sub(agi, standardDeduction))
      loop == BracketLoop(brackets, 1, taxableIncome, Zero, <<>>)
  IN  [ taxableIncome |-> taxableIncome,
        federalIncomeTax |-> loop.totalTax,
        bracketDetails |-> loop.bracketDetails ]

\* calculateIncomeTax with taxable income not floored at 0.
calculateIncomeTaxNoFloor(netProfit, seTaxDeduction, filingStatus) ==
  LET standardDeduction == TAX_CONSTANTS_2025.standardDeduction[filingStatus]
      brackets == TAX_BRACKETS_2025[filingStatus]
      agi == Sub(netProfit, seTaxDeduction)
      taxableIncome == Sub(agi, standardDeduction)
      loop == BracketLoop(brackets, 1, taxableIncome, Zero, <<>>)
  IN  [ taxableIncome |-> taxableIncome,
        federalIncomeTax |-> loop.totalTax,
        bracketDetails |-> loop.bracketDetails ]

\* Calculate Federal Income Tax using progressive brackets
calculateIncomeTax(netProfit, seTaxDeduction, filingStatus) ==
  LET standardDeduction == TAX_CONSTANTS_2025.standardDeduction[filingStatus]
      brackets == TAX_BRACKETS_2025[filingStatus]
      agi == Sub(netProfit, seTaxDeduction)
      taxableIncome == Max(Zero, Sub(agi, standardDeduction))
      loop == BracketLoop(brackets, 1, taxableIncome, Zero, <<>>)
  IN  [ taxableIncome |-> taxableIncome,
        federalIncomeTax |-> loop.totalTax,
        bracketDetails |-> loop.bracketDetails ]

\* calculateSafeHarbor with the threshold test written >= instead of >.
calculateSafeHarborInclusive(priorYearTax, priorYearAGI) ==
  LET multiplier ==
        IF Le(TAX_CONSTANTS_2025.safeHarborHighIncomeThreshold, priorYearAGI)
          THEN TAX_CONSTANTS_2025.safeHarborHighIncomeMultiplier
          ELSE TAX_CONSTANTS_2025.safeHarborStandardMultiplier
  IN  [safeHarborMinimum |-> Mul(priorYearTax, multiplier), multiplier |-> multiplier]

\* Calculate Safe Harbor minimum payment
calculateSafeHarbor(priorYearTax, priorYearAGI) ==
  LET multiplier ==
        IF Lt(TAX_CONSTANTS_2025.safeHarborHighIncomeThreshold, priorYearAGI)
          THEN TAX_CONSTANTS_2025.safeHarborHighIncomeMultiplier
          ELSE TAX_CONSTANTS_2025.safeHarborStandardMultiplier
  IN  [safeHarborMinimum |-> Mul(priorYearTax, multiplier), multiplier |-> multiplier]

\* calculateTaxes with Math.max where the source has Math.min.
calculateTaxesGreater(inputs) ==
  LET filingStatus == inputs.filingStatus
      priorYearTax == inputs.priorYearTax
      priorYearAGI == inputs.priorYearAGI
      currentYearProfit == inputs.currentYearProfit
      selfEmploymentTax == calculateSelfEmploymentTax(currentYearProfit, filingStatus)
      incomeTax ==
        calculateIncomeTax(currentYearProfit, selfEmploymentTax.seTaxDeduction,
                           filingStatus)
      currentYearTotalTax ==
        Add(selfEmploymentTax.totalSETax, incomeTax.federalIncomeTax)
      currentYearAvoidanceMinimum ==
        Mul(currentYearTotalTax, TAX_CONSTANTS_2025.currentYearAvoidanceMultiplier)
      safeHarbor == calculateSafeHarbor(priorYearTax, priorYearAGI)
      safeHarborMinimum == safeHarbor.safeHarborMinimum
      safeHarborMultiplier == safeHarbor.multiplier
      requiredAnnualPayment == Max(safeHarborMinimum, currentYearAvoidanceMinimum)
      quarterlyPayment == Mul(requiredAnnualPayment, Rate(1, 4))
      isCurrentYearLower == Lt(currentYearAvoidanceMinimum, safeHarborMinimum)
      savings == Abs(Sub(safeHarborMinimum, currentYearAvoidanceMinimum))
  IN  [ selfEmploymentTax |-> selfEmploymentTax,
        incomeTax |-> incomeTax,
        currentYearTotalTax |-> currentYearTotalTax,
        currentYearAvoidanceMinimum |-> currentYearAvoidanceMinimum,
        safeHarborMultiplier |-> safeHarborMultiplier,
        safeHarborMinimum |-> safeHarborMinimum,
        requiredAnnualPayment |-> requiredAnnualPayment,
        quarterlyPayment |-> quarterlyPayment,
        isCurrentYearLower |-> isCurrentYearLower,
        savings |-> savings ]

\* calculateTaxes with isCurrentYearLower tested by <= instead of <.
calculateTaxesTieCurrent(inputs) ==
  LET filingStatus == inputs.filingStatus
      priorYearTax == inputs.priorYearTax
      priorYearAGI == inputs.priorYearAGI
      currentYearProfit == inputs.currentYearProfit
      selfEmploymentTax == calculateSelfEmploymentTax(currentYearProfit, filingStatus)
      incomeTax ==
        calculateIncomeTax(currentYearProfit, selfEmploymentTax.seTaxDeduction,
                           filingStatus)
      currentYearTotalTax ==
        Add(selfEmploymentTax.totalSETax, incomeTax.federalIncomeTax)
      currentYearAvoidanceMinimum ==
        Mul(currentYearTotalTax, TAX_CONSTANTS_2025.currentYearAvoidanceMultiplier)
      safeHarbor == calculateSafeHarbor(priorYearTax, priorYearAGI)
      safeHarborMinimum == safeHarbor.safeHarborMinimum
      safeHarborMultiplier == safeHarbor.multiplier
      requiredAnnualPayment == Min(safeHarborMinimum, currentYearAvoidanceMinimum)
      quarterlyPayment == Mul(requiredAnnualPayment, Rate(1, 4))
      isCurrentYearLower == Le(currentYearAvoidanceMinimum, safeHarborMinimum)
      savings == Abs(Sub(safeHarborMinimum, currentYearAvoidanceMinimum))
  IN  [ selfEmploymentTax |-> selfEmploymentTax,
        incomeTax |-> incomeTax,
        currentYearTotalTax |-> currentYearTotalTax,
        currentYearAvoidanceMinimum |-> currentYearAvoidanceMinimum,
        safeHarborMultiplier |-> safeHarborMultiplier,
        safeHarborMinimum |-> safeHarborMinimum,
        requiredAnnualPayment |-> requiredAnnualPayment,
        quarterlyPayment |-> quarterlyPayment,
        isCurrentYearLower |-> isCurrentYearLower,
        savings |-> savings ]

\* calculateTaxes passing totalSETax, not seTaxDeduction, to calculateIncomeTax.
calculateTaxesWholeDeduction(inputs) ==
  LET filingStatus == inputs.filingStatus
      priorYearTax == inputs.priorYearTax
      priorYearAGI == inputs.priorYearAGI
      currentYearProfit == inputs.currentYearProfit
      selfEmploymentTax == calculateSelfEmploymentTax(currentYearProfit, filingStatus)
      incomeTax ==
        calculateIncomeTax(currentYearProfit, selfEmploymentTax.totalSETax,
                           filingStatus)
      currentYearTotalTax ==
        Add(selfEmploymentTax.totalSETax, incomeTax.federalIncomeTax)
      currentYearAvoidanceMinimum ==
        Mul(currentYearTotalTax, TAX_CONSTANTS_2025.currentYearAvoidanceMultiplier)
      safeHarbor == calculateSafeHarbor(priorYearTax, priorYearAGI)
      safeHarborMinimum == safeHarbor.safeHarborMinimum
      safeHarborMultiplier == safeHarbor.multiplier
      requiredAnnualPayment == Min(safeHarborMinimum, currentYearAvoidanceMinimum)
      quarterlyPayment == Mul(requiredAnnualPayment, Rate(1, 4))
      isCurrentYearLower == Lt(currentYearAvoidanceMinimum, safeHarborMinimum)
      savings == Abs(Sub(safeHarborMinimum, currentYearAvoidanceMinimum))
  IN  [ selfEmploymentTax |-> selfEmploymentTax,
        incomeTax |-> incomeTax,
        currentYearTotalTax |-> currentYearTotalTax,
        currentYearAvoidanceMinimum |-> currentYearAvoidanceMinimum,
        safeHarborMultiplier |-> safeHarborMultiplier,
        safeHarborMinimum |-> safeHarborMinimum,
        requiredAnnualPayment |-> requiredAnnualPayment,
        quarterlyPayment |-> quarterlyPayment,
        isCurrentYearLower |-> isCurrentYearLower,
        savings |-> savings ]

\* calculateTaxes with savings computed without Math.abs.
calculateTaxesSignedSavings(inputs) ==
  LET filingStatus == inputs.filingStatus
      priorYearTax == inputs.priorYearTax
      priorYearAGI == inputs.priorYearAGI
      currentYearProfit == inputs.currentYearProfit
      selfEmploymentTax == calculateSelfEmploymentTax(currentYearProfit, filingStatus)
      incomeTax ==
        calculateIncomeTax(currentYearProfit, selfEmploymentTax.seTaxDeduction,
                           filingStatus)
      currentYearTotalTax ==
        Add(selfEmploymentTax.totalSETax, incomeTax.federalIncomeTax)
      currentYearAvoidanceMinimum ==
        Mul(currentYearTotalTax, TAX_CONSTANTS_2025.currentYearAvoidanceMultiplier)
      safeHarbor == calculateSafeHarbor(priorYearTax, priorYearAGI)
      safeHarborMinimum == safeHarbor.safeHarborMinimum
      safeHarborMultiplier == safeHarbor.multiplier
      requiredAnnualPayment == Min(safeHarborMinimum, currentYearAvoidanceMinimum)
      quarterlyPayment == Mul(requiredAnnualPayment, Rate(1, 4))
      isCurrentYearLower == Lt(currentYearAvoidanceMinimum, safeHarborMinimum)
      savings == Sub(safeHarborMinimum, currentYearAvoidanceMinimum)
  IN  [ selfEmploymentTax |-> selfEmploymentTax,
        incomeTax |-> incomeTax,
        currentYearTotalTax |-> currentYearTotalTax,
        currentYearAvoidanceMinimum |-> currentYearAvoidanceMinimum,
        safeHarborMultiplier |-> safeHarborMultiplier,
        safeHarborMinimum |-> safeHarborMinimum,
        requiredAnnualPayment |-> requiredAnnualPayment,
        quarterlyPayment |-> quarterlyPayment,
        isCurrentYearLower |-> isCurrentYearLower,
        savings |-> savings ]

\* Main calculation function - computes everything
calculateTaxes(inputs) ==
  LET filingStatus == inputs.filingStatus
      priorYearTax == inputs.priorYearTax
      priorYearAGI == inputs.priorYearAGI
      currentYearProfit == inputs.currentYearProfit
      selfEmploymentTax == calculateSelfEmploymentTax(currentYearProfit, filingStatus)
      incomeTax ==
        calculateIncomeTax(currentYearProfit, selfEmploymentTax.seTaxDeduction,
                           filingStatus)
      currentYearTotalTax ==
        Add(selfEmploymentTax.totalSETax, incomeTax.federalIncomeTax)
      currentYearAvoidanceMinimum ==
        Mul(currentYearTotalTax, TAX_CONSTANTS_2025.currentYearAvoidanceMultiplier)
      safeHarbor == calculateSafeHarbor(priorYearTax, priorYearAGI)
      safeHarborMinimum == safeHarbor.safeHarborMinimum
      safeHarborMultiplier == safeHarbor.multiplier
      requiredAnnualPayment == Min(safeHarborMinimum, currentYearAvoidanceMinimum)
      quarterlyPayment == Mul(requiredAnnualPayment, Rate(1, 4))
      isCurrentYearLower == Lt(currentYearAvoidanceMinimum, safeHarborMinimum)
      savings == Abs(Sub(safeHarborMinimum, currentYearAvoidanceMinimum))
  IN  [ selfEmploymentTax |-> selfEmploymentTax,
        incomeTax |-> incomeTax,
        currentYearTotalTax |-> currentYearTotalTax,
        currentYearAvoidanceMinimum |-> currentYearAvoidanceMinimum,
        safeHarborMultiplier |-> safeHarborMultiplier,
        safeHarborMinimum |-> safeHarborMinimum,
        requiredAnnualPayment |-> requiredAnnualPayment,
        quarterlyPayment |-> quarterlyPayment,
        isCurrentYearLower |-> isCurrentYearLower,
        savings |-> savings ]

\* CalculationExplanation and generateTaxSummaryPDF with the test written >=.
isHighIncomeInclusive(priorYearAGI) ==
  Le(TAX_CONSTANTS_2025.safeHarborHighIncomeThreshold, priorYearAGI)

\* const isHighIncome = priorYearAGI > ...safeHarborHighIncomeThreshold, as
\* CalculationExplanation and generateTaxSummaryPDF both compute it.
isHighIncome(priorYearAGI) ==
  Lt(TAX_CONSTANTS_2025.safeHarborHighIncomeThreshold, priorYearAGI)

\* Step 6 of CalculationExplanation: the multiplier in the calculation line.
stepSixMultiplier(priorYearAGI) ==
  IF isHighIncome(priorYearAGI) THEN "110%" ELSE "100%"

\* generateTaxSummaryPDF: the Safe Harbor Multiplier line.
multiplierText(priorYearAGI) ==
  IF isHighIncome(priorYearAGI) THEN "110% (AGI over $150,000)"
  ELSE "100% (AGI $150,000 or less)"

\* Step 3 of CalculationExplanation: the left-hand side of the calculation
\* line, net profit minus half of SE tax minus standard deduction.
stepThreeDifference(netProfit, filingStatus, res) ==
  LET standardDeduction == TAX_CONSTANTS_2025.standardDeduction[filingStatus]
  IN  Sub(Sub(netProfit, res.selfEmploymentTax.seTaxDeduction), standardDeduction)

(***************************************************************************)
(* Formatting and parsing.  A string is a sequence of one-character        *)
(* strings.  Negative zero is not modelled: Math.round(-0.4) and           *)
(* parseFloat("-0") are the number 0 here.                                 *)
(***************************************************************************)
DigitChars == <<"0", "1", "2", "3", "4", "5", "6", "7", "8", "9">>

IsDigit(c) == \E d \in 1..Len(DigitChars) : DigitChars[d] = c

DigitValue(c) == (CHOOSE d \in 1..Len(DigitChars) : DigitChars[d] = c) - 1

\* Math.round: the nearest whole number, halves towards +Infinity.
MathRound(a) ==
  LET h == Add(a, Mul(FromInt(1), Rate(1, 2)))
      whole == <<0, 0, 0, h.mag[4], h.mag[5]>>
  IN  IF h.neg /\ h.mag # whole
        THEN Norm(TRUE, MagAdd(whole, FromInt(1).mag))
        ELSE Norm(h.neg, whole)

\* The decimal digits of a natural number, in en-US groups of three.
RECURSIVE GroupedDigits(_)
GroupedDigits(n) ==
  IF n < 1000
    THEN (IF n >= 100 THEN <<DigitChars[(n \div 100) + 1]>> ELSE <<>>)
           \o (IF n >= 10 THEN <<DigitChars[((n \div 10) % 10) + 1]>> ELSE <<>>)
           \o <<DigitChars[(n % 10) + 1]>>
    ELSE GroupedDigits(n \div 1000)
           \o << ",", DigitChars[((n \div 100) % 10) + 1],
                 DigitChars[((n \div 10) % 10) + 1], DigitChars[(n % 10) + 1] >>

\* Intl.NumberFormat('en-US', {style: 'currency', currency: 'USD', no
\* fraction digits}).format of a whole number below 2 * 10^9 in magnitude.
IntlFormatUSD(a) ==
  (IF a.neg THEN <<"-">> ELSE <<>>)
    \o <<"$">> \o GroupedDigits(a.mag[4] + Base * a.mag[5])

\* Format number as currency
formatCurrency(amount) == IntlFormatUSD(MathRound(amount))

NaN == [nan |-> TRUE]

isNaN(x) == "nan" \in DOMAIN x

\* The number of digits of s from position i on, up to the first non-digit.
RECURSIVE DigitRun(_, _)
DigitRun(s, i) ==
  IF i > Len(s) \/ ~IsDigit(s[i]) THEN 0 ELSE 1 + DigitRun(s, i + 1)

\* The whole number written by the digits s[i..j].
RECURSIVE WholeValue(_, _, _)
WholeValue(s, i, j) ==
  IF j < i THEN Zero
  ELSE Add(Mul(WholeValue(s, i, j - 1), Rate(10, 1)), FromInt(DigitValue(s[j])))

\* The fraction 0.d(i)...d(j) written by the digits s[i..j].
RECURSIVE FractionValue(_, _, _)
FractionValue(s, i, j) ==
  IF j < i THEN Zero
  ELSE Mul(Add(FromInt(DigitValue(s[i])), FractionValue(s, i + 1, j)), Rate(1, 10))

\* parseFloat on a string without white space, letters or exponent: an
\* optional sign, then the longest prefix digits[.digits] or .digits; NaN
\* when that prefix has no digit.  What follows the prefix is ignored.
parseFloat(s) ==
  LET signed == s # <<>> /\ s[1] \in {"-", "+"}
      body == IF signed THEN Tail(s) ELSE s
      nInt == DigitRun(body, 1)
      hasDot == Len(body) > nInt /\ body[nInt + 1] = "."
      nFrac == IF hasDot THEN DigitRun(body, nInt + 2) ELSE 0
      value == Add(WholeValue(body, 1, nInt),
                   FractionValue(body, nInt + 2, nInt + 1 + nFrac))
  IN  IF nInt + nFrac = 0 THEN NaN
      ELSE Norm(signed /\ s[1] = "-", value.mag)

\* value.replace(/[^0-9.-]/g, '')
KeepNumeric(c) == IsDigit(c) \/ c \in {".", "-"}

\* parseCurrency with the fallback left out: returns what parseFloat returns.
parseCurrencyNoFallback(value) ==
  LET cleaned == SelectSeq(value, KeepNumeric)
  IN  parseFloat(cleaned)

\* parseCurrency with the minus sign stripped too (/[^0-9.]/g).
parseCurrencyUnsigned(value) ==
  LET cleaned == SelectSeq(value, IsDigit)
      parsed == parseFloat(cleaned)
  IN  IF isNaN(parsed) THEN Zero ELSE parsed

\* Parse currency string to number
parseCurrency(value) ==
  LET cleaned == SelectSeq(value, KeepNumeric)
      parsed == parseFloat(cleaned)
  IN  IF isNaN(parsed) THEN Zero ELSE parsed

(***************************************************************************)
(* The component and its storage.  A JavaScript string is a string; a      *)
(* value held by a hook is a string or a number, tagged with its type (a   *)
(* number carries its decimal literal).  localStorage maps the keys that   *)
(* are present to their items.  Every string of the model is free of       *)
(* quotes, backslashes and control characters, so JSON needs no escapes.   *)
(***************************************************************************)
STORAGE_KEY_PREFIX == "safe-harbor-tax-"

fullKey(key) == STORAGE_KEY_PREFIX \o key

CurrencyKeys == {"priorYearTax", "priorYearAGI", "currentYearProfit"}

InputKeys == {"filingStatus"} \cup CurrencyKeys

StringValue(text) == [type |-> "string", text |-> text]

NumberValue(text) == [type |-> "number", text |-> text]

initialValue(key) ==
  IF key = "filingStatus" THEN StringValue("single") ELSE StringValue("")

\* JavaScript truthiness of a string or a number.
Truthy(v) ==
  IF v.type = "string" THEN v.text # "" ELSE v.text \notin {"0", "-0"}

CharAt(s, i) == SubSeq(s, i, i)

\* s.replace(/[^0-9]/g, '')
RECURSIVE ReplaceNonDigits(_)
ReplaceNonDigits(s) ==
  IF s = "" THEN ""
  ELSE (IF IsDigit(CharAt(s, 1)) THEN CharAt(s, 1) ELSE "")
         \o ReplaceNonDigits(SubSeq(s, 2, Len(s)))

\* The number of digits of s from position i on, up to the first non-digit.
RECURSIVE DigitPrefix(_, _)
DigitPrefix(s, i) ==
  IF i > Len(s) \/ ~IsDigit(CharAt(s, i)) THEN 0 ELSE 1 + DigitPrefix(s, i + 1)

\* The natural number written by the digits s[i..j].
RECURSIVE DecimalValue(_, _, _)
DecimalValue(s, i, j) ==
  IF j < i THEN 0
  ELSE 10 * DecimalValue(s, i, j - 1) + DigitValue(CharAt(s, j))

\* The base-100000 limbs, least significant first, of the whole number
\* written by the digits s[i..j].
RECURSIVE WholeLimbs(_, _, _)
WholeLimbs(s, i, j) ==
  IF j < i THEN <<>>
  ELSE <<DecimalValue(s, IF j - 4 > i THEN j - 4 ELSE i, j)>>
         \o WholeLimbs(s, i, j - 5)

\* Limbs without leading zero limbs, two limbs at least.
RECURSIVE TrimLimbs(_)
TrimLimbs(limbs) ==
  IF Len(limbs) < 2 THEN TrimLimbs(limbs \o <<0>>)
  ELSE IF Len(limbs) > 2 /\ limbs[Len(limbs)] = 0
    THEN TrimLimbs(SubSeq(limbs, 1, Len(limbs) - 1))
  ELSE limbs

\* parseInt(s, 10) on a string without white space: an optional sign and
\* the longest run of digits; NaN when there is no digit.  The number is
\* exact when the digits have at most 15 significant ones, as every digit
\* string of the model has; a number of 10^10 or more has more than five
\* limbs and is only ever converted back to a string.
parseInt(s) ==
  LET signed == s # "" /\ CharAt(s, 1) \in {"-", "+"}
      from == IF signed THEN 2 ELSE 1
      n == DigitPrefix(s, from)
      limbs == TrimLimbs(WholeLimbs(s, from, from + n - 1))
  IN  IF n = 0 THEN NaN
      ELSE [ neg |-> signed /\ CharAt(s, 1) = "-" /\ \E k \in 1..Len(limbs) : limbs[k] # 0,
             mag |-> <<0, 0, 0>> \o limbs ]

\* The decimal digits of a natural number.
RECURSIVE NaturalToString(_)
NaturalToString(n) ==
  IF n < 10 THEN DigitChars[n + 1]
  ELSE NaturalToString(n \div 10) \o DigitChars[(n % 10) + 1]

\* The five decimal digits of a limb that is not the leading one.
PaddedLimb(n) ==
  DigitChars[(n \div 10000) + 1] \o DigitChars[((n \div 1000) % 10) + 1]
    \o DigitChars[((n \div 100) % 10) + 1] \o DigitChars[((n \div 10) % 10) + 1]
    \o DigitChars[(n % 10) + 1]

\* The decimal digits of the whole part of a magnitude, from limb k down.
RECURSIVE WholeDigits(_, _, _)
WholeDigits(mag, k, leading) ==
  IF k = 4
    THEN (IF leading THEN NaturalToString(mag[4]) ELSE PaddedLimb(mag[4]))
  ELSE IF leading /\ mag[k] = 0 THEN WholeDigits(mag, k - 1, TRUE)
  ELSE (IF leading THEN NaturalToString(mag[k]) ELSE PaddedLimb(mag[k]))
         \o WholeDigits(mag, k - 1, FALSE)

RECURSIVE StripTrailingZeros(_)
StripTrailingZeros(digits) ==
  IF Len(digits) > 1 /\ CharAt(digits, Len(digits)) = "0"
    THEN StripTrailingZeros(SubSeq(digits, 1, Len(digits) - 1))
  ELSE digits

\* Number.prototype.toString of a whole number: its decimal digits below
\* 10^21, and from 10^21 on the exponent form d[.ddd]e+n of its significant
\* digits (at most 15 in the model, so the digits are those of the number).
toString(a) ==
  LET digits == WholeDigits(a.mag, Len(a.mag), TRUE)
      significant == StripTrailingZeros(digits)
  IN  (IF a.neg THEN "-" ELSE "")
        \o (IF Len(digits) < 22 THEN digits
            ELSE CharAt(significant, 1)
                   \o (IF Len(significant) > 1
                         THEN "." \o SubSeq(significant, 2, Len(significant))
                         ELSE "")
                   \o "e+" \o NaturalToString(Len(digits) - 1))

JSONstringify(v) ==
  IF v.type = "string" THEN "\"" \o v.text \o "\"" ELSE v.text

IsStringLiteral(item) ==
  /\ Len(item) >= 2
  /\ CharAt(item, 1) = "\""
  /\ CharAt(item, Len(item)) = "\""
  /\ \A i \in 2..(Len(item) - 1) : CharAt(item, i) \notin {"\"", "\\"}

\* A JSON integer literal: -?(0|[1-9][0-9]*).
IsNumberLiteral(item) ==
  LET from == IF item # "" /\ CharAt(item, 1) = "-" THEN 2 ELSE 1
  IN  /\ from <= Len(item)
      /\ DigitPrefix(item, from) = Len(item) - from + 1
      /\ (CharAt(item, from) = "0" => Len(item) = from)

\* JSON.parse of a string literal, of an integer literal, or of a text that
\* is not JSON, on which it throws.
JSONparse(item) ==
  IF IsStringLiteral(item)
    THEN [threw |-> FALSE, value |-> StringValue(SubSeq(item, 2, Len(item) - 1))]
  ELSE IF IsNumberLiteral(item)
    THEN [threw |-> FALSE, value |-> NumberValue(item)]
  ELSE [threw |-> TRUE]

\* What an access to window.localStorage does: it works, setItem throws
\* (the quota is used up), or every access throws (storage is denied).
StorageModes == {"ok", "quota", "denied"}

setItem(storage, key, item) ==
  [k \in DOMAIN storage \cup {key} |-> IF k = key THEN item ELSE storage[k]]

removeItem(storage, key) == [k \in DOMAIN storage \ {key} |-> storage[k]]

startsWith(s, prefix) ==
  Len(s) >= Len(prefix) /\ SubSeq(s, 1, Len(prefix)) = prefix

\* The initial state of a freshly mounted useLocalStorage hook.
useLocalStorageIgnoringStorage(storage, key, mode) == initialValue(key)

useLocalStorage(storage, key, mode) ==
  IF mode = "denied" THEN initialValue(key)
  ELSE IF fullKey(key) \notin DOMAIN storage \/ storage[fullKey(key)] = ""
    THEN initialValue(key)
  ELSE LET parsed == JSONparse(storage[fullKey(key)])
       IN  IF parsed.threw THEN initialValue(key) ELSE parsed.value

\* The storage after setValue(value) of the hook of key.
setValueStorage(storage, key, value, mode) ==
  IF mode = "ok" THEN setItem(storage, fullKey(key), JSONstringify(value))
  ELSE storage

\* clearTaxCalculatorStorage removing every key (localStorage.clear()).
clearTaxCalculatorStorageAll(storage, mode) ==
  IF mode = "denied" THEN storage ELSE [k \in {} |-> ""]

\* clearTaxCalculatorStorage removing no key.
clearTaxCalculatorStorageNothing(storage, mode) == storage

\* The storage after clearTaxCalculatorStorage().
clearTaxCalculatorStorage(storage, mode) ==
  IF mode = "denied" THEN storage
  ELSE [k \in {x \in DOMAIN storage : ~startsWith(x, STORAGE_KEY_PREFIX)} |->
          storage[k]]

null == [null |-> TRUE]

IsNull(x) == "null" \in DOMAIN x

hasAllInputsTwo(values) ==
  Truthy(values["priorYearTax"]) /\ Truthy(values["priorYearAGI"])

hasAllInputs(values) ==
  /\ Truthy(values["priorYearTax"])
  /\ Truthy(values["priorYearAGI"])
  /\ Truthy(values["currentYearProfit"])

\* parseInt(value, 10) || 0
parseIntOrZero(v) ==
  LET parsed == parseInt(v.text)
  IN  IF isNaN(parsed) THEN Zero ELSE parsed

\* The memoised calculation result of the component whose hooks hold values.
resultOf(values) ==
  IF ~hasAllInputs(values) THEN null
  ELSE calculateTaxes([ filingStatus |-> values["filingStatus"].text,
                        priorYearTax |-> parseIntOrZero(values["priorYearTax"]),
                        priorYearAGI |-> parseIntOrZero(values["priorYearAGI"]),
                        currentYearProfit |->
                          parseIntOrZero(values["currentYearProfit"]) ])

result == resultOf(storedValue)

\* {result && (...)}: the results section is rendered.
showsResults == ~IsNull(result)

\* {!result && (...)}: the empty state is rendered.
showsEmptyState == IsNull(result)

(***************************************************************************)
(* The calls.  Arguments are whole dollars, as the calculator component    *)
(* passes them (parseInt of a digit string), drawn from the values at      *)
(* which the code changes branch and from a coarse grid.                   *)
(***************************************************************************)
MaxProfitGrid == 3

\* Net profits: a grid of 100000s, a loss, and the whole dollars on either side of
\* the Social Security wage base (176100 / 0.9235) and of the Additional
\* Medicare thresholds (200000 / 0.9235, 250000 / 0.9235).
Profits ==
  {i * 100000 : i \in 0..MaxProfitGrid}
    \cup {0 - 50000, 0 - 1, 17000, 190687, 190688, 216567, 216568, 270709, 270710, 1000000}

\* Taxable incomes at and around every bracket boundary of a table.
BoundaryIncomes(brackets) ==
  UNION { {b - 1, b, b + 1} :
          b \in {brackets[i].min.mag[4] + Base * brackets[i].min.mag[5] :
                 i \in 2..Len(brackets)} }

PriorYearTaxes == {0, 25000, 60000}

PriorYearAGIs == {140000, 150000, 150001, 151000}

SelfEmploymentTaxArgs ==
  {<<FromInt(p), fs>> : p \in Profits, fs \in FilingStatus}

\* calculateIncomeTax is exported and takes any deduction: a whole-dollar
\* net profit and a deduction of 0 or 0.35 put the taxable income on and on
\* either side of every bracket boundary, in whole dollars and with cents.
IncomeTaxArgs ==
  UNION { { <<Add(FromInt(t), TaxConstants2025.standardDeduction[fs]), d, fs>> :
            t \in BoundaryIncomes(TaxBrackets2025[fs]) \cup {0 - 1, 0, 1},
            d \in {Zero, Mul(FromInt(35), Rate(1, 100))} } :
          fs \in FilingStatus }

SafeHarborArgs ==
  {<<FromInt(t), FromInt(a)>> : t \in PriorYearTaxes, a \in PriorYearAGIs}

TaxInputs ==
  { [ filingStatus |-> fs, priorYearTax |-> FromInt(pa[1]),
      priorYearAGI |-> FromInt(pa[2]), currentYearProfit |-> FromInt(p) ] :
    fs \in FilingStatus, p \in Profits,
    pa \in { <<0, 140000>>, <<25000, 140000>>, <<25000, 150000>>,
             <<25000, 150001>>, <<60000, 151000>> } }

Call(fn, args, ret) == [fn |-> fn, args |-> args, ret |-> ret]

Init ==
  /\ TAX_CONSTANTS_2025 = TaxConstants2025
  /\ TAX_BRACKETS_2025 = TaxBrackets2025
  /\ last = Call("none", <<>>, <<>>)
  /\ localStorage = [k \in {} |-> ""]
  /\ storedValue = [key \in InputKeys |-> useLocalStorage(localStorage, key, "ok")]

CallSelfEmploymentTax ==
  /\ \E a \in SelfEmploymentTaxArgs :
       last' = Call("calculateSelfEmploymentTax", a,
                    calculateSelfEmploymentTax(a[1], a[2]))
  /\ UNCHANGED <<TAX_CONSTANTS_2025, TAX_BRACKETS_2025, localStorage, storedValue>>

CallIncomeTax ==
  /\ \E a \in IncomeTaxArgs :
       last' = Call("calculateIncomeTax", a, calculateIncomeTax(a[1], a[2], a[3]))
  /\ UNCHANGED <<TAX_CONSTANTS_2025, TAX_BRACKETS_2025, localStorage, storedValue>>

CallSafeHarbor ==
  /\ \E a \in SafeHarborArgs :
       last' = Call("calculateSafeHarbor", a, calculateSafeHarbor(a[1], a[2]))
  /\ UNCHANGED <<TAX_CONSTANTS_2025, TAX_BRACKETS_2025, localStorage, storedValue>>

\* CallTaxes with the walk consuming the shared table (brackets.shift()).
CallTaxesShifting ==
  \E inputs \in TaxInputs :
    /\ last' = Call("calculateTaxes", <<inputs>>, calculateTaxes(inputs))
    /\ TAX_BRACKETS_2025' =
         [TAX_BRACKETS_2025 EXCEPT
            ![inputs.filingStatus] = IF @ = <<>> THEN @ ELSE Tail(@)]
    /\ UNCHANGED <<TAX_CONSTANTS_2025, localStorage, storedValue>>

CallTaxes ==
  /\ \E inputs \in TaxInputs :
       last' = Call("calculateTaxes", <<inputs>>, calculateTaxes(inputs))
  /\ UNCHANGED <<TAX_CONSTANTS_2025, TAX_BRACKETS_2025, localStorage, storedValue>>

Next ==
  \/ CallSelfEmploymentTax
  \/ CallIncomeTax
  \/ CallSafeHarbor
  \/ CallTaxes

Spec == Init /\ [][Next]_vars

(***************************************************************************)
(* The formatting helpers, called on their own: amounts on either side of  *)
(* each digit-group boundary, negative ones, amounts with cents, and every *)
(* short string over a small alphabet ("$" stands for every character      *)
(* parseCurrency strips).                                                  *)
(***************************************************************************)
MaxStrLen == 3

WholeAmounts ==
  LET naturals == { 0, 1, 9, 10, 99, 100, 999, 1000, 1001, 6250, 9999, 10000,
                    25000, 99999, 100000, 100200, 999999, 1000000, 1002003,
                    123456789, 1000000000 }
  IN  naturals \cup {0 - n : n \in naturals}

FormatArgs ==
  {FromInt(n) : n \in WholeAmounts}
    \cup { Add(FromInt(n), Mul(FromInt(c), Rate(1, 100))) :
           n \in {0 - 1000, 0 - 3, 0, 999, 6250}, c \in {25, 50, 75} }

Alphabet == {"0", "5", ".", "-", "$"}

ParseArgs ==
  UNION {[1..k -> Alphabet] : k \in 0..MaxStrLen}
    \cup {formatCurrency(a) : a \in FormatArgs}

CallFormatCurrency ==
  /\ \E a \in FormatArgs : last' = Call("formatCurrency", <<a>>, formatCurrency(a))
  /\ UNCHANGED <<TAX_CONSTANTS_2025, TAX_BRACKETS_2025, localStorage, storedValue>>

CallParseCurrency ==
  /\ \E s \in ParseArgs : last' = Call("parseCurrency", <<s>>, parseCurrency(s))
  /\ UNCHANGED <<TAX_CONSTANTS_2025, TAX_BRACKETS_2025, localStorage, storedValue>>

NextCurrency ==
  \/ CallFormatCurrency
  \/ CallParseCurrency

SpecCurrency == Init /\ [][NextCurrency]_vars

(***************************************************************************)
(* The component in use: typing into a currency input, leaving it,         *)
(* choosing a filing status, Clear all, a reload of the page, and a        *)
(* storage event for a write another tab has made.  The typed texts hold   *)
(* a character that is stripped and a leading zero that blur removes.      *)
(***************************************************************************)
TypedTexts(field) ==
  IF field = "priorYearTax" THEN {"", "$5", "05"}
  ELSE IF field = "priorYearAGI" THEN {"", "7"}
  ELSE {"", "9a"}

StorageEvents ==
  { [key |-> fullKey("priorYearTax"), isNull |-> n, newValue |-> v] :
      <<n, v>> \in {<<TRUE, "">>, <<FALSE, "\"5\"">>, <<FALSE, "7">>, <<FALSE, "{">>} }
    \cup {[key |-> "theme", isNull |-> FALSE, newValue |-> "\"dark\""]}

\* setValue(value) of the hook of key.
setValue(key, value, mode) ==
  /\ storedValue' = [storedValue EXCEPT ![key] = value]
  /\ localStorage' = setValueStorage(localStorage, key, value, mode)

\* CurrencyInput.handleChange with e.target.value = typed.
handleChange ==
  \E field \in CurrencyKeys, mode \in StorageModes :
    \E typed \in TypedTexts(field) :
      LET rawValue == ReplaceNonDigits(typed)
      IN  /\ setValue(field, StringValue(rawValue), mode)
          /\ last' = Call("handleChange", <<>>, <<>>)
          /\ UNCHANGED <<TAX_CONSTANTS_2025, TAX_BRACKETS_2025>>

\* CurrencyInput.handleBlur.
handleBlur ==
  \E field \in CurrencyKeys, mode \in StorageModes :
    LET value == storedValue[field]
        numValue == parseInt(value.text)
    IN  /\ IF Truthy(value) /\ ~isNaN(numValue)
             THEN setValue(field, StringValue(toString(numValue)), mode)
             ELSE UNCHANGED <<localStorage, storedValue>>
        /\ last' = Call("handleBlur", <<>>, <<>>)
        /\ UNCHANGED <<TAX_CONSTANTS_2025, TAX_BRACKETS_2025>>

\* FilingStatusToggle: onChange('single') or onChange('married').
FilingStatusToggle ==
  \E status \in FilingStatus, mode \in StorageModes :
    /\ setValue("filingStatus", StringValue(status), mode)
    /\ last' = Call("FilingStatusToggle", <<>>, <<>>)
    /\ UNCHANGED <<TAX_CONSTANTS_2025, TAX_BRACKETS_2025>>

handleClearAll ==
  \E mode \in StorageModes :
    LET cleared == clearTaxCalculatorStorage(localStorage, mode)
        s1 == setValueStorage(cleared, "filingStatus", StringValue("single"), mode)
        s2 == setValueStorage(s1, "priorYearTax", StringValue(""), mode)
        s3 == setValueStorage(s2, "priorYearAGI", StringValue(""), mode)
        s4 == setValueStorage(s3, "currentYearProfit", StringValue(""), mode)
    IN  /\ localStorage' = s4
        /\ storedValue' =
             [key \in InputKeys |->
                IF key = "filingStatus" THEN StringValue("single")
                ELSE StringValue("")]
        /\ last' = Call("handleClearAll", <<mode>>, <<>>)
        /\ UNCHANGED <<TAX_CONSTANTS_2025, TAX_BRACKETS_2025>>

\* The page is loaded again: the component is mounted afresh.
Reload ==
  \E mode \in StorageModes \ {"quota"} :
    /\ storedValue' = [key \in InputKeys |-> useLocalStorage(localStorage, key, mode)]
    /\ last' = Call("mount", <<mode>>, <<>>)
    /\ UNCHANGED <<TAX_CONSTANTS_2025, TAX_BRACKETS_2025, localStorage>>

\* handleStorageChange with the key test left out.
handleStorageChangeAnyKey(value, key, e) ==
  IF ~e.isNull
    THEN LET parsed == JSONparse(e.newValue)
         IN  IF parsed.threw THEN value ELSE parsed.value
    ELSE value

\* The hook of key, holding value, handles the storage event e.
handleStorageChange(value, key, e) ==
  IF e.key = fullKey(key) /\ ~e.isNull
    THEN LET parsed == JSONparse(e.newValue)
         IN  IF parsed.threw THEN value ELSE parsed.value
    ELSE value

\* Another tab has changed the storage (a write or a removal that leaves
\* the storage as it was fires no event) and the event arrives here.
StorageEvent ==
  \E e \in StorageEvents :
    /\ IF e.isNull THEN e.key \in DOMAIN localStorage
       ELSE IF e.key \in DOMAIN localStorage THEN localStorage[e.key] # e.newValue
       ELSE TRUE
    /\ localStorage' =
         IF e.isNull THEN removeItem(localStorage, e.key)
         ELSE setItem(localStorage, e.key, e.newValue)
    /\ storedValue' =
         [key \in InputKeys |-> handleStorageChange(storedValue[key], key, e)]
    /\ last' = Call("handleStorageChange", <<>>, <<>>)
    /\ UNCHANGED <<TAX_CONSTANTS_2025, TAX_BRACKETS_2025>>

\* The exported clearTaxCalculatorStorage, called on its own.
CallClearTaxCalculatorStorage ==
  \E mode \in StorageModes :
    /\ localStorage' = clearTaxCalculatorStorage(localStorage, mode)
    /\ last' = Call("clearTaxCalculatorStorage", <<mode>>, <<>>)
    /\ UNCHANGED <<TAX_CONSTANTS_2025, TAX_BRACKETS_2025, storedValue>>

NextUI ==
  \/ handleChange
  \/ handleBlur
  \/ FilingStatusToggle
  \/ handleClearAll
  \/ Reload
  \/ StorageEvent
  \/ CallClearTaxCalculatorStorage

SpecUI == Init /\ [][NextUI]_vars

(***************************************************************************)
(* The input handlers alone, from empty storage: typing, blur, the filing  *)
(* status toggle and Clear all.  Here the typed texts also hold a          *)
(* priorYearAGI of 22 digits (10^21); the input has no maxLength.          *)
(***************************************************************************)
LongTypedTexts(field) ==
  IF field = "priorYearAGI" THEN TypedTexts(field) \cup {"1000000000000000000000"}
  ELSE TypedTexts(field)

\* CurrencyInput.handleChange with e.target.value = typed, long texts too.
handleChangeLong ==
  \E field \in CurrencyKeys, mode \in StorageModes :
    \E typed \in LongTypedTexts(field) :
      LET rawValue == ReplaceNonDigits(typed)
      IN  /\ setValue(field, StringValue(rawValue), mode)
          /\ last' = Call("handleChange", <<>>, <<>>)
          /\ UNCHANGED <<TAX_CONSTANTS_2025, TAX_BRACKETS_2025>>

NextInput ==
  \/ handleChangeLong
  \/ handleBlur
  \/ FilingStatusToggle
  \/ handleClearAll

SpecInput == Init /\ [][NextInput]_vars

(***************************************************************************)
(* Properties.  Helpers first: literal amounts and sums over a breakdown.  *)
(***************************************************************************)
\* The amount whole.cents, e.g. Dollars(21836, 40) is 21836.40.
Dollars(whole, cents) == Add(FromInt(whole), Mul(FromInt(cents), Rate(1, 100)))

Positive(a) == ~a.neg /\ a.mag # ZeroMag

NonNegative(a) == ~a.neg

RECURSIVE SumTaxableAtRate(_)
SumTaxableAtRate(details) ==
  IF details = <<>> THEN Zero
  ELSE Add(details[1].taxableAtRate, SumTaxableAtRate(Tail(details)))

\* Left to right from 0, as totalTax accumulates.
RECURSIVE SumTaxAtRate(_, _)
SumTaxAtRate(details, acc) ==
  IF details = <<>> THEN acc
  ELSE SumTaxAtRate(Tail(details), Add(acc, details[1].taxAtRate))

IsTaxes == last.fn = "calculateTaxes"

IsSafeHarbor == last.fn = "calculateSafeHarbor"

IsSelfEmployment == last.fn = "calculateSelfEmploymentTax"

IsIncomeTax == last.fn = "calculateIncomeTax"

\* C1: every calculateTaxes result has requiredAnnualPayment equal to the
\* smaller of safeHarborMinimum and currentYearAvoidanceMinimum, and
\* quarterlyPayment is the unrounded quarter of it: four times
\* quarterlyPayment is requiredAnnualPayment.
C1_RequiredIsLesser ==
  IsTaxes =>
    LET r == last.ret
    IN  /\ r.requiredAnnualPayment
             \in {r.safeHarborMinimum, r.currentYearAvoidanceMinimum}
        /\ Le(r.requiredAnnualPayment, r.safeHarborMinimum)
        /\ Le(r.requiredAnnualPayment, r.currentYearAvoidanceMinimum)
        /\ Mul(r.quarterlyPayment, Rate(4, 1)) = r.requiredAnnualPayment
        /\ Add(Add(r.quarterlyPayment, r.quarterlyPayment),
               Add(r.quarterlyPayment, r.quarterlyPayment)) = r.requiredAnnualPayment

\* A result whose two minimums differ, with a quarter that is not a whole
\* number of dollars.
C1_Witness ==
  /\ IsTaxes
  /\ Lt(last.ret.currentYearAvoidanceMinimum, last.ret.safeHarborMinimum)
  /\ last.ret.requiredAnnualPayment = last.ret.currentYearAvoidanceMinimum
  /\ last.ret.quarterlyPayment.mag[3] # 0

\* The prior-year tax, the prior-year AGI and the Safe Harbor outcome of the
\* last call, for the two calculators that produce one.
SafeHarborOfLast ==
  IF IsSafeHarbor
    THEN [ priorYearTax |-> last.args[1], priorYearAGI |-> last.args[2],
           multiplier |-> last.ret.multiplier,
           safeHarborMinimum |-> last.ret.safeHarborMinimum ]
    ELSE [ priorYearTax |-> last.args[1].priorYearTax,
           priorYearAGI |-> last.args[1].priorYearAGI,
           multiplier |-> last.ret.safeHarborMultiplier,
           safeHarborMinimum |-> last.ret.safeHarborMinimum ]

\* C2: the Safe Harbor multiplier is 1.1 exactly when priorYearAGI is
\* strictly greater than 150000 and 1.0 otherwise (150000 gives 1.0, 150001
\* gives 1.1, a married filer with 151000 gives 1.1), whatever the filing
\* status and the current-year profit, and safeHarborMinimum is priorYearTax
\* times the multiplier.
C2_StrictThreshold ==
  (IsSafeHarbor \/ IsTaxes) =>
    LET s == SafeHarborOfLast
        high == Positive(Sub(s.priorYearAGI, FromInt(150000)))
    IN  /\ s.multiplier = (IF high THEN Rate(11, 10) ELSE Rate(10, 10))
        /\ s.priorYearAGI = FromInt(150000) => s.multiplier = Rate(10, 10)
        /\ s.priorYearAGI = FromInt(150001) => s.multiplier = Rate(11, 10)
        /\ s.priorYearAGI = FromInt(151000) => s.multiplier = Rate(11, 10)
        /\ IF high
             THEN Mul(s.safeHarborMinimum, Rate(10, 1)) = Mul(s.priorYearTax, Rate(11, 1))
             ELSE s.safeHarborMinimum = s.priorYearTax

\* calculateSafeHarbor was called with AGI exactly at the threshold and a
\* positive prior-year tax, and applied 1.0.
C2_Witness ==
  /\ IsSafeHarbor
  /\ last.args[2] = FromInt(150000)
  /\ Positive(last.args[1])
  /\ last.ret.safeHarborMinimum = last.args[1]

\* The net profit, the filing status and the breakdown of the last call, for
\* the two calculators that produce a self-employment tax breakdown.
SelfEmploymentOfLast ==
  IF IsSelfEmployment
    THEN [netProfit |-> last.args[1], filingStatus |-> last.args[2], tax |-> last.ret]
    ELSE [ netProfit |-> last.args[1].currentYearProfit,
           filingStatus |-> last.args[1].filingStatus,
           tax |-> last.ret.selfEmploymentTax ]

\* The filing status and the breakdown of a call that produced an income
\* tax breakdown.
HasIncomeTax(call) == call.fn \in {"calculateIncomeTax", "calculateTaxes"}

IncomeTaxOf(call) ==
  IF call.fn = "calculateIncomeTax"
    THEN [filingStatus |-> call.args[3], tax |-> call.ret]
    ELSE [filingStatus |-> call.args[1].filingStatus, tax |-> call.ret.incomeTax]

\* C3: for both filing statuses, the taxableAtRate of the bracketDetails
\* calculateIncomeTax returns add up to taxableIncome exactly, and
\* federalIncomeTax is the sum of their taxAtRate.
C3_BracketsAccountForIncome ==
  HasIncomeTax(last) =>
    LET t == IncomeTaxOf(last).tax
    IN  /\ NonNegative(t.taxableIncome)
        /\ SumTaxableAtRate(t.bracketDetails) = t.taxableIncome
        /\ SumTaxAtRate(t.bracketDetails, Zero) = t.federalIncomeTax

\* A married filer's income with cents that reaches the top bracket: seven
\* entries.
C3_Witness ==
  /\ IsIncomeTax
  /\ last.args[3] = "married"
  /\ Len(last.ret.bracketDetails) = 7
  /\ last.ret.taxableIncome.mag[3] # 0

\* C4: for both filing statuses and every non-negative netProfit, the three
\* components calculateSelfEmploymentTax returns are non-negative, totalSETax
\* is exactly their sum, and seTaxDeduction is half of totalSETax.
C4_ComponentsAddUp ==
  ((IsSelfEmployment \/ IsTaxes) /\ NonNegative(SelfEmploymentOfLast.netProfit)) =>
    LET t == SelfEmploymentOfLast.tax
    IN  /\ NonNegative(t.socialSecurityTax)
        /\ NonNegative(t.medicareTax)
        /\ NonNegative(t.additionalMedicareTax)
        /\ t.totalSETax
             = Add(Add(t.socialSecurityTax, t.medicareTax), t.additionalMedicareTax)
        /\ Add(t.seTaxDeduction, t.seTaxDeduction) = t.totalSETax

\* A call where all three components are positive.
C4_Witness ==
  /\ IsSelfEmployment
  /\ Positive(last.args[1])
  /\ Positive(last.ret.socialSecurityTax)
  /\ Positive(last.ret.medicareTax)
  /\ Positive(last.ret.additionalMedicareTax)

\* C5: for every netProfit and filing status, socialSecurityTax never
\* exceeds 176100 x 0.124 = 21836.40, and it is that cap whenever
\* netProfit x 0.9235 >= 176100.
C5_SocialSecurityCap ==
  (IsSelfEmployment \/ IsTaxes) =>
    LET s == SelfEmploymentOfLast
        cap == Dollars(21836, 40)
    IN  /\ Le(s.tax.socialSecurityTax, cap)
        /\ Le(FromInt(176100), Mul(s.netProfit, Rate(9235, 10000)))
             => s.tax.socialSecurityTax = cap

\* The first whole-dollar profit whose SE earnings pass the wage base.
C5_Witness ==
  /\ IsSelfEmployment
  /\ last.args[1] = FromInt(190688)
  /\ last.ret.socialSecurityTax = Dollars(21836, 40)

\* C6: additionalMedicareTax is 0 whenever netProfit x 0.9235 is at most the
\* threshold of the filing status (200000 single, 250000 married), and above
\* it is positive and equal to 0.009 x (netProfit x 0.9235 - threshold).
C6_AdditionalMedicareOnExcess ==
  (IsSelfEmployment \/ IsTaxes) =>
    LET s == SelfEmploymentOfLast
        threshold == FromInt(IF s.filingStatus = "single" THEN 200000 ELSE 250000)
        earnings == Mul(s.netProfit, Rate(9235, 10000))
    IN  IF Le(earnings, threshold)
          THEN s.tax.additionalMedicareTax = Zero
          ELSE /\ Positive(s.tax.additionalMedicareTax)
               /\ s.tax.additionalMedicareTax
                    = Mul(Sub(earnings, threshold), Rate(9, 1000))

\* A married filer whose SE earnings are between the two thresholds pays
\* none; the state is a married filer just over the married threshold.
C6_Witness ==
  /\ IsSelfEmployment
  /\ last.args = <<FromInt(270710), "married">>
  /\ Positive(last.ret.additionalMedicareTax)
  /\ Lt(last.ret.additionalMedicareTax, FromInt(1))

\* C7: for a fixed filing status federalIncomeTax is monotonically
\* non-decreasing in taxableIncome: whenever one call that computes an income
\* tax follows another for the same filing status with taxableIncome at
\* least as large, its federalIncomeTax is at least as large.  Every ordered
\* pair of calls is a step, so the step property covers every pair.
C7_IncomeTaxMonotone ==
  [][ ( /\ HasIncomeTax(last)
        /\ HasIncomeTax(last')
        /\ IncomeTaxOf(last).filingStatus = IncomeTaxOf(last').filingStatus
        /\ Le(IncomeTaxOf(last).tax.taxableIncome, IncomeTaxOf(last').tax.taxableIncome) )
      => Le(IncomeTaxOf(last).tax.federalIncomeTax,
            IncomeTaxOf(last').tax.federalIncomeTax) ]_vars

\* A single filer one dollar into the 22% bracket owes more than the
\* 5578.60 owed on the two full brackets below.
C7_Witness ==
  /\ IsIncomeTax
  /\ last.args[3] = "single"
  /\ last.ret.taxableIncome = FromInt(48477)
  /\ last.ret.federalIncomeTax = Dollars(5578, 82)

C9_StrictlyLower ==
  IsTaxes =>
    LET r == last.ret
    IN  /\ r.isCurrentYearLower
             <=> Positive(Sub(r.safeHarborMinimum, r.currentYearAvoidanceMinimum))
        /\ r.safeHarborMinimum = r.currentYearAvoidanceMinimum => ~r.isCurrentYearLower

\* A tie: no prior-year tax and no profit, both minimums 0, flag false.
C9_Witness ==
  /\ IsTaxes
  /\ last.ret.safeHarborMinimum = last.ret.currentYearAvoidanceMinimum
  /\ ~last.ret.isCurrentYearLower

ScenarioA ==
  [ filingStatus |-> "single", priorYearTax |-> FromInt(25000),
    priorYearAGI |-> FromInt(140000), currentYearProfit |-> FromInt(200000) ]

\* C10: scenario A, calculateTaxes on {single, 25000, 140000, 200000}, gives
\* multiplier 1.0, safeHarborMinimum 25000, socialSecurityTax 21836.4,
\* medicareTax 5356.3, additionalMedicareTax 0, taxableIncome 170653.65,
\* requiredAnnualPayment 25000, quarterlyPayment 6250, isCurrentYearLower
\* false.
C10_ScenarioA ==
  (IsTaxes /\ last.args = <<ScenarioA>>) =>
    LET r == last.ret
    IN  /\ r.safeHarborMultiplier = Rate(10, 10)
        /\ r.safeHarborMinimum = FromInt(25000)
        /\ r.selfEmploymentTax.socialSecurityTax = Dollars(21836, 40)
        /\ r.selfEmploymentTax.medicareTax = Dollars(5356, 30)
        /\ r.selfEmploymentTax.additionalMedicareTax = Zero
        /\ r.incomeTax.taxableIncome = Dollars(170653, 65)
        /\ r.requiredAnnualPayment = FromInt(25000)
        /\ r.quarterlyPayment = FromInt(6250)
        /\ r.isCurrentYearLower = FALSE

\* Scenario A has been calculated.
C10_Witness ==
  /\ IsTaxes
  /\ last.args = <<ScenarioA>>
  /\ last.ret.selfEmploymentTax.totalSETax = Dollars(27192, 70)

\* C11: bracketDetails holds exactly the brackets with a taxed amount greater
\* than zero, as a prefix of the filing status's table in ascending rate
\* order; with taxableIncome 0 it is empty and federalIncomeTax is 0.
C11_DetailsArePositivePrefix ==
  HasIncomeTax(last) =>
    LET t == IncomeTaxOf(last).tax
        d == t.bracketDetails
        table == TAX_BRACKETS_2025[IncomeTaxOf(last).filingStatus]
    IN  /\ Len(d) <= Len(table)
        /\ \A i \in 1..Len(d) :
             /\ d[i].rate = table[i].rate
             /\ Positive(d[i].taxableAtRate)
             /\ i > 1 => d[i - 1].rate.num * d[i].rate.den < d[i].rate.num * d[i - 1].rate.den
        \* nothing taxed is left out of the list
        /\ SumTaxableAtRate(d) = t.taxableIncome
        /\ t.taxableIncome = Zero => (d = <<>> /\ t.federalIncomeTax = Zero)

\* AGI exactly the standard deduction: taxable income 0, no entries, no tax.
C11_Witness ==
  /\ IsIncomeTax
  /\ last.args[1] = TaxConstants2025.standardDeduction[last.args[3]]
  /\ last.args[2] = Zero
  /\ last.ret.taxableIncome = Zero
  /\ last.ret.bracketDetails = <<>>
  /\ last.ret.federalIncomeTax = Zero

\* C12: with currentYearProfit = 0, for either filing status and any
\* prior-year values, calculateTaxes returns all five self-employment
\* figures equal to 0 and taxableIncome equal to 0.
C12_ZeroProfit ==
  (IsTaxes /\ last.args[1].currentYearProfit = Zero) =>
    /\ last.ret.selfEmploymentTax.socialSecurityTax = Zero
    /\ last.ret.selfEmploymentTax.medicareTax = Zero
    /\ last.ret.selfEmploymentTax.additionalMedicareTax = Zero
    /\ last.ret.selfEmploymentTax.totalSETax = Zero
    /\ last.ret.selfEmploymentTax.seTaxDeduction = Zero
    /\ last.ret.incomeTax.taxableIncome = Zero

\* A married filer with no profit, prior-year tax owed and a high AGI.
C12_Witness ==
  /\ IsTaxes
  /\ last.args[1].currentYearProfit = Zero
  /\ last.args[1].filingStatus = "married"
  /\ Positive(last.args[1].priorYearTax)
  /\ last.ret.currentYearTotalTax = Zero

ResultFields ==
  { "selfEmploymentTax", "incomeTax", "currentYearTotalTax",
    "currentYearAvoidanceMinimum", "safeHarborMultiplier", "safeHarborMinimum",
    "requiredAnnualPayment", "quarterlyPayment", "isCurrentYearLower", "savings" }

\* C17: for a negative netProfit calculateSelfEmploymentTax returns negative
\* socialSecurityTax and medicareTax and zero additionalMedicareTax, and
\* calculateTaxes still returns a complete result, taxableIncome clamped at 0.
C17_NegativeProfitTolerated ==
  ((IsSelfEmployment \/ IsTaxes) /\ SelfEmploymentOfLast.netProfit.neg) =>
    LET t == SelfEmploymentOfLast.tax
    IN  /\ t.socialSecurityTax.neg
        /\ t.medicareTax.neg
        /\ t.additionalMedicareTax = Zero
        /\ IsTaxes =>
             /\ DOMAIN last.ret = ResultFields
             /\ last.ret.incomeTax.taxableIncome = Zero
             /\ last.ret.incomeTax.bracketDetails = <<>>

\* calculateTaxes has returned for a loss of 50000: a negative projected tax.
C17_Witness ==
  /\ IsTaxes
  /\ last.args[1].currentYearProfit = FromInt(0 - 50000)
  /\ last.ret.currentYearTotalTax.neg
  /\ last.ret.incomeTax.taxableIncome = Zero

\* C18: calculateTaxes is the composition of the three calculators: its
\* selfEmploymentTax is calculateSelfEmploymentTax(currentYearProfit,
\* filingStatus), its incomeTax is calculateIncomeTax(currentYearProfit, that
\* breakdown's seTaxDeduction, filingStatus), currentYearTotalTax is totalSETax
\* + federalIncomeTax, currentYearAvoidanceMinimum is 0.9 times that, and the
\* Safe Harbor figures are calculateSafeHarbor(priorYearTax, priorYearAGI).
C18_Composition ==
  IsTaxes =>
    LET in == last.args[1]
        r == last.ret
        se == calculateSelfEmploymentTax(in.currentYearProfit, in.filingStatus)
        sh == calculateSafeHarbor(in.priorYearTax, in.priorYearAGI)
    IN  /\ r.selfEmploymentTax = se
        /\ r.incomeTax
             = calculateIncomeTax(in.currentYearProfit, se.seTaxDeduction, in.filingStatus)
        /\ r.currentYearTotalTax
             = Add(r.selfEmploymentTax.totalSETax, r.incomeTax.federalIncomeTax)
        /\ Mul(r.currentYearAvoidanceMinimum, Rate(10, 1))
             = Mul(r.currentYearTotalTax, Rate(9, 1))
        /\ r.safeHarborMinimum = sh.safeHarborMinimum
        /\ r.safeHarborMultiplier = sh.multiplier

\* A result with income tax owed, additional Medicare tax and the 110%
\* multiplier: all three calculators contribute.
C18_Witness ==
  /\ IsTaxes
  /\ Positive(last.ret.incomeTax.federalIncomeTax)
  /\ Positive(last.ret.selfEmploymentTax.additionalMedicareTax)
  /\ last.ret.safeHarborMultiplier = Rate(11, 10)

RECURSIVE SumFirst(_, _)
SumFirst(details, k) ==
  IF k = 0 THEN Zero ELSE Add(SumFirst(details, k - 1), details[k].taxableAtRate)

\* C19: for every filing status, taxable income and bounded bracket k, the
\* amount taxed in brackets 1..k never exceeds bracket k's upper bound from
\* the table (a single filer has at most 11925 taxed at 10%).
C19_NoDollarInLowerBracket ==
  HasIncomeTax(last) =>
    LET d == IncomeTaxOf(last).tax.bracketDetails
        table == TAX_BRACKETS_2025[IncomeTaxOf(last).filingStatus]
    IN  \A k \in 1..Len(d) :
          ~IsInfinity(table[k].max) => Le(SumFirst(d, k), table[k].max)

\* C20: each table of TAX_BRACKETS_2025 is a valid bracket table: the first
\* bracket starts at 0, each later lower bound is the previous upper bound
\* + 1, lower bound <= upper bound, the last bracket is unbounded and only
\* the last, and rates strictly increase.
C20_TablesValid ==
  \A fs \in FilingStatus :
    LET table == TAX_BRACKETS_2025[fs]
    IN  /\ Len(table) > 0
        /\ table[1].min = Zero
        /\ IsInfinity(table[Len(table)].max)
        /\ \A i \in 1..Len(table) :
             /\ Le(table[i].min, table[i].max)
             /\ i < Len(table) => ~IsInfinity(table[i].max)
             /\ i > 1 =>
                  /\ table[i].min = Add(table[i - 1].max, FromInt(1))
                  /\ table[i - 1].rate.num * table[i].rate.den
                       < table[i].rate.num * table[i - 1].rate.den

\* The single table has been walked to its last, unbounded bracket.
C20_Witness ==
  /\ IsIncomeTax
  /\ last.args[3] = "single"
  /\ Len(last.ret.bracketDetails) = Len(TAX_BRACKETS_2025.single)
  /\ TAX_BRACKETS_2025 = TaxBrackets2025

IsFormat(call) == call.fn = "formatCurrency"

IsParse(call) == call.fn = "parseCurrency"

\* a is a whole number of dollars.
IsWholeDollar(a) == a.mag[1] = 0 /\ a.mag[2] = 0 /\ a.mag[3] = 0

\* a is a number: not NaN, not an infinity.
IsFiniteNumber(a) == ~isNaN(a) /\ a.neg \in BOOLEAN /\ Len(a.mag) = 5

HasDigit(s) == \E i \in 1..Len(s) : IsDigit(s[i])

(***************************************************************************)
(* C13.  Currency round trip: when formatCurrency has formatted a whole-   *)
(* dollar amount n and parseCurrency is then called on the string it       *)
(* returned, parseCurrency returns n.                                      *)
(***************************************************************************)
C13_RoundTrip ==
  [][ ( /\ IsFormat(last) /\ IsWholeDollar(last.args[1])
        /\ IsParse(last') /\ last'.args[1] = last.ret )
      => last'.ret = last.args[1] ]_vars

\* parseCurrency has been called on "-$1,000", the formatted form of -1000,
\* and returned -1000.
C13_Witness ==
  /\ IsParse(last)
  /\ last.args[1] = <<"-", "$", "1", ",", "0", "0", "0">>
  /\ last.args[1] = formatCurrency(FromInt(0 - 1000))
  /\ last.ret = FromInt(0 - 1000)

(***************************************************************************)
(* C14.  parseCurrency always returns a number, never NaN: a string        *)
(* without any digit gives 0, a string whose kept characters start with    *)
(* two minus signs gives 0, "$" is dropped before parsing ("$5" gives 5,   *)
(* "-$5" gives -5, "$.5" gives 0.5), and a string that starts with digits  *)
(* gives a non-negative number.                                            *)
(***************************************************************************)
C14_ParseNeverFails ==
  IsParse(last) =>
    LET s == last.args[1]
        kept == SelectSeq(s, LAMBDA c : c \notin {"$", ","})
    IN  /\ IsFiniteNumber(last.ret)
        /\ ~HasDigit(s) => last.ret = Zero
        /\ (Len(kept) >= 2 /\ kept[1] = "-" /\ kept[2] = "-") => last.ret = Zero
        /\ s = <<"$", "5">> => last.ret = FromInt(5)
        /\ s = <<"-", "$", "5">> => last.ret = FromInt(0 - 5)
        /\ s = <<"$", ".", "5">> => last.ret = Dollars(0, 50)
        /\ (s # <<>> /\ IsDigit(s[1])) => ~last.ret.neg

\* parseCurrency has been called on "--5", where parseFloat fails although
\* the string has a digit, and returned 0.
C14_Witness ==
  /\ IsParse(last)
  /\ last.args[1] = <<"-", "-", "5">>
  /\ isNaN(parseFloat(last.args[1]))
  /\ last.ret = Zero

IsMount(call) == call.fn = "mount"

\* The step is one of the handlers that call setValue.
IsSetter(call) ==
  call.fn \in {"handleChange", "handleBlur", "FilingStatusToggle", "handleClearAll"}

\* The values the component passes to setValue of the hook of key.
InputValues(key) ==
  IF key = "filingStatus" THEN {StringValue(s) : s \in FilingStatus}
  ELSE {StringValue(t) : t \in {"", "5", "05", "7", "9"}}

C16_ProgressiveDisclosure ==
  (\A key \in CurrencyKeys : storedValue[key].type = "string") =>
    LET allEntered == \A key \in CurrencyKeys : storedValue[key].text # ""
        shown == showsResults
    IN  /\ shown <=> allEntered
        /\ showsEmptyState <=> ~allEntered
        /\ shown => result.requiredAnnualPayment =
                      Min(result.safeHarborMinimum, result.currentYearAvoidanceMinimum)

\* The third input has just been typed: "05", "7" and "9" are entered and
\* the results section is shown.
C16_Witness ==
  /\ last.fn = "handleChange"
  /\ storedValue["priorYearTax"] = StringValue("05")
  /\ storedValue["priorYearAGI"] = StringValue("7")
  /\ storedValue["currentYearProfit"] = StringValue("9")
  /\ showsResults /\ ~showsEmptyState

(***************************************************************************)
(* C21.  In every calculateTaxes result the recommendation, the payment    *)
(* and the savings agree: requiredAnnualPayment is                         *)
(* currentYearAvoidanceMinimum when isCurrentYearLower and                 *)
(* safeHarborMinimum otherwise; savings is never negative, is the amount   *)
(* by which the method not recommended exceeds requiredAnnualPayment, and  *)
(* is 0 exactly when the two minimums are equal.                           *)
(***************************************************************************)
C21_RecommendationConsistent ==
  IsTaxes =>
    LET r == last.ret
        sh == r.safeHarborMinimum
        cy == r.currentYearAvoidanceMinimum
        notRecommended == IF r.isCurrentYearLower THEN sh ELSE cy
    IN  /\ r.isCurrentYearLower => r.requiredAnnualPayment = cy
        /\ ~r.isCurrentYearLower => r.requiredAnnualPayment = sh
        /\ NonNegative(r.savings)
        /\ r.savings = Sub(notRecommended, r.requiredAnnualPayment)
        /\ (r.savings = Zero) <=> (sh = cy)

\* The Safe Harbor minimum is the lower one and the current-year method
\* would cost more: savings is positive.
C21_Witness ==
  /\ IsTaxes
  /\ ~last.ret.isCurrentYearLower
  /\ Lt(last.ret.safeHarborMinimum, last.ret.currentYearAvoidanceMinimum)
  /\ Positive(last.ret.savings)

\* The rate a percentage text of the explanation or the export stands for.
ShownRate(text) ==
  IF SubSeq(text, 1, 4) = "110%" THEN Rate(110, 100) ELSE Rate(100, 100)

(***************************************************************************)
(* C22.  For every calculateTaxes call, the isHighIncome test of the       *)
(* explanation and of the export is true exactly when the result's         *)
(* safeHarborMultiplier is 1.1, and the multiplier they show ('110%' or    *)
(* '100%') times priorYearTax is the result's safeHarborMinimum.           *)
(***************************************************************************)
C22_MultiplierReconstructed ==
  IsTaxes =>
    LET priorYearTax == last.args[1].priorYearTax
        priorYearAGI == last.args[1].priorYearAGI
    IN  /\ isHighIncome(priorYearAGI) <=> last.ret.safeHarborMultiplier = Rate(11, 10)
        /\ ~isHighIncome(priorYearAGI) <=> last.ret.safeHarborMultiplier = Rate(10, 10)
        /\ Mul(priorYearTax, ShownRate(stepSixMultiplier(priorYearAGI)))
             = last.ret.safeHarborMinimum
        /\ Mul(priorYearTax, ShownRate(multiplierText(priorYearAGI)))
             = last.ret.safeHarborMinimum

\* A prior-year AGI of exactly 150000: both layers show 100% and the
\* minimum is the prior-year tax.
C22_Witness ==
  /\ IsTaxes
  /\ last.args[1].priorYearAGI = FromInt(150000)
  /\ Positive(last.args[1].priorYearTax)
  /\ stepSixMultiplier(last.args[1].priorYearAGI) = "100%"
  /\ last.ret.safeHarborMinimum = last.args[1].priorYearTax

\* The inputs of the last calculateTaxes call are all non-negative, as every
\* input the component passes is.
NonNegativeInputs ==
  /\ NonNegative(last.args[1].priorYearTax)
  /\ NonNegative(last.args[1].priorYearAGI)
  /\ NonNegative(last.args[1].currentYearProfit)

(***************************************************************************)
(* C23.  The equation of explanation step 3: for every calculateTaxes      *)
(* call with non-negative inputs, the result's taxableIncome is net profit *)
(* minus the result's seTaxDeduction minus the standard deduction of the   *)
(* filing status.                                                          *)
(***************************************************************************)
C23_StepThreeEquation ==
  (IsTaxes /\ NonNegativeInputs) =>
    last.ret.incomeTax.taxableIncome =
      stepThreeDifference(last.args[1].currentYearProfit,
                          last.args[1].filingStatus, last.ret)

(***************************************************************************)
(* C24.  For every calculateTaxes call with non-negative priorYearTax,     *)
(* priorYearAGI and currentYearProfit, every monetary field of the result  *)
(* is non-negative, and requiredAnnualPayment is at most safeHarborMinimum *)
(* and at most currentYearAvoidanceMinimum.                                *)
(***************************************************************************)
C24_NonNegativeResult ==
  (IsTaxes /\ NonNegativeInputs) =>
    LET r == last.ret
    IN  /\ NonNegative(r.selfEmploymentTax.totalSETax)
        /\ NonNegative(r.selfEmploymentTax.seTaxDeduction)
        /\ NonNegative(r.incomeTax.taxableIncome)
        /\ NonNegative(r.incomeTax.federalIncomeTax)
        /\ NonNegative(r.currentYearTotalTax)
        /\ NonNegative(r.currentYearAvoidanceMinimum)
        /\ NonNegative(r.safeHarborMinimum)
        /\ NonNegative(r.requiredAnnualPayment)
        /\ NonNegative(r.quarterlyPayment)
        /\ NonNegative(r.savings)
        /\ Le(r.requiredAnnualPayment, r.safeHarborMinimum)
        /\ Le(r.requiredAnnualPayment, r.currentYearAvoidanceMinimum)

\* A profit of 17000 with a prior-year tax: every field is positive, the
\* taxable income (48.98825) just above its floor.
C24_Witness ==
  /\ IsTaxes /\ NonNegativeInputs
  /\ last.args[1].currentYearProfit = FromInt(17000)
  /\ last.args[1].filingStatus = "single"
  /\ Positive(last.args[1].priorYearTax)
  /\ Positive(last.ret.incomeTax.taxableIncome)
  /\ Lt(last.ret.incomeTax.taxableIncome, FromInt(49))
  /\ Positive(last.ret.requiredAnnualPayment)
  /\ Positive(last.ret.savings)

(***************************************************************************)
(* C25.  For a fixed filing status and non-negative profits p1 <= p2,      *)
(* calculateTaxes gives taxableIncome(p1) <= taxableIncome(p2) and         *)
(* currentYearTotalTax(p1) <= currentYearTotalTax(p2): checked on every    *)
(* pair of consecutive calculateTaxes calls.                               *)
(***************************************************************************)
C25_ProfitMonotone ==
  [][ ( /\ last.fn = "calculateTaxes"
        /\ last'.fn = "calculateTaxes"
        /\ last.args[1].filingStatus = last'.args[1].filingStatus
        /\ NonNegative(last.args[1].currentYearProfit)
        /\ Le(last.args[1].currentYearProfit, last'.args[1].currentYearProfit) )
      => /\ Le(last.ret.incomeTax.taxableIncome, last'.ret.incomeTax.taxableIncome)
         /\ Le(last.ret.currentYearTotalTax, last'.ret.currentYearTotalTax) ]_vars

\* A single filer's profit of 216568, the first whole dollar at which the
\* Additional Medicare Tax applies: taxable income and total tax are above
\* those of a profit of 216567.
C25_Witness ==
  /\ IsTaxes
  /\ last.args[1].filingStatus = "single"
  /\ last.args[1].currentYearProfit = FromInt(216568)
  /\ Positive(last.ret.selfEmploymentTax.additionalMedicareTax)
  /\ LET below == calculateTaxes([last.args[1] EXCEPT
                                    !.currentYearProfit = FromInt(216567)])
     IN  /\ Lt(below.incomeTax.taxableIncome, last.ret.incomeTax.taxableIncome)
         /\ Lt(below.currentYearTotalTax, last.ret.currentYearTotalTax)

\* The whole-dollar amount formatCurrency shows for an amount.
ShownDollars(amount) == parseCurrency(formatCurrency(amount))

(***************************************************************************)
(* C26.  For every calculateTaxes result with non-negative                 *)
(* requiredAnnualPayment, four times the whole-dollar quarterly amount     *)
(* formatCurrency shows for quarterlyPayment is at least the whole-dollar  *)
(* annual total formatCurrency shows for requiredAnnualPayment.            *)
(***************************************************************************)
C26_VouchersCoverAnnual ==
  (IsTaxes /\ NonNegative(last.ret.requiredAnnualPayment)) =>
    Le(ShownDollars(last.ret.requiredAnnualPayment),
       Mul(ShownDollars(last.ret.quarterlyPayment), Rate(4, 1)))

\* The text holds decimal digits only.
OnlyDigits(text) == \A i \in 1..Len(text) : IsDigit(CharAt(text, i))

(***************************************************************************)
(* C27.  From empty local storage, after any sequence of typing, blur,     *)
(* filing-status toggle and Clear all: each of the three currency inputs   *)
(* is a string of decimal digits only, filingStatus is 'single' or         *)
(* 'married', and each of the three numbers the component passes to        *)
(* calculateTaxes is a non-negative whole number.                          *)
(***************************************************************************)
C27_InputsAreDigits ==
  /\ \A key \in CurrencyKeys :
       /\ storedValue[key].type = "string"
       /\ OnlyDigits(storedValue[key].text)
       /\ NonNegative(parseIntOrZero(storedValue[key]))
       /\ IsWholeDollar(parseIntOrZero(storedValue[key]))
  /\ storedValue["filingStatus"] \in {StringValue(status) : status \in FilingStatus}

\* The item under a storage key differs between two storages.
ItemChanged(before, after, k) ==
  \/ (k \in DOMAIN before) # (k \in DOMAIN after)
  \/ k \in DOMAIN before /\ k \in DOMAIN after /\ before[k] # after[k]

(***************************************************************************)
(* C28.  Cross-tab synchronisation, on every step that delivers a storage  *)
(* event: a hook whose own key was given a new item that parses as JSON    *)
(* takes the parsed value ('"5"' gives the string 5, '7' the number 7) and *)
(* then holds what the storage holds under its key; a hook whose key was   *)
(* not the one changed, whose item was removed, or whose new item does not *)
(* parse ('{') keeps its state.                                            *)
(***************************************************************************)
C28_CrossTabSync ==
  [][ last'.fn = "handleStorageChange" =>
        \A key \in InputKeys :
          LET k == fullKey(key)
              set == ItemChanged(localStorage, localStorage', k)
                       /\ k \in DOMAIN localStorage'
          IN  /\ (set /\ localStorage'[k] = "\"5\"") =>
                   storedValue'[key] = StringValue("5")
              /\ (set /\ localStorage'[k] = "7") => storedValue'[key] = NumberValue("7")
              /\ (set /\ localStorage'[k] = "{") => storedValue'[key] = storedValue[key]
              /\ (set /\ ~JSONparse(localStorage'[k]).threw) =>
                   /\ storedValue'[key] = JSONparse(localStorage'[k]).value
                   /\ JSONstringify(storedValue'[key]) = localStorage'[k]
              /\ ~set => storedValue'[key] = storedValue[key] ]_vars

\* Another tab has written the number 7 under the priorYearTax key and the
\* hook holds it, while the other hooks hold what was typed here.
C28_Witness ==
  /\ last.fn = "handleStorageChange"
  /\ fullKey("priorYearTax") \in DOMAIN localStorage
  /\ localStorage[fullKey("priorYearTax")] = "7"
  /\ storedValue["priorYearTax"] = NumberValue("7")
  /\ storedValue["priorYearAGI"] = StringValue("7")

\* The four inputs are the defaults and no result is held.
InputsAreDefaults ==
  /\ storedValue["filingStatus"] = StringValue("single")
  /\ \A key \in CurrencyKeys : storedValue[key] = StringValue("")
  /\ IsNull(result)
  /\ showsEmptyState

\* Every key under the prefix is absent or holds its default, and a reload
\* that reads the storage starts from the defaults.
StorageHoldsDefaults ==
  /\ \A key \in CurrencyKeys :
       fullKey(key) \in DOMAIN localStorage => localStorage[fullKey(key)] = "\"\""
  /\ fullKey("filingStatus") \in DOMAIN localStorage =>
       localStorage[fullKey("filingStatus")] = "\"single\""
  /\ \A k \in DOMAIN localStorage :
       startsWith(k, STORAGE_KEY_PREFIX) => \E key \in InputKeys : k = fullKey(key)
  /\ \A key \in InputKeys :
       useLocalStorage(localStorage, key, "ok") =
         (IF key = "filingStatus" THEN StringValue("single") ELSE StringValue(""))

CalculatorKeys ==
  { "safe-harbor-tax-filingStatus", "safe-harbor-tax-priorYearTax",
    "safe-harbor-tax-priorYearAGI", "safe-harbor-tax-currentYearProfit" }

(***************************************************************************)
(* C30.  On every call of clearTaxCalculatorStorage: when the storage can  *)
(* be accessed, no key that starts with 'safe-harbor-tax-' is left and     *)
(* every other key keeps its value; when storage access throws, the call   *)
(* returns all the same and the storage is as it was; the hooks' states    *)
(* are untouched either way.                                               *)
(***************************************************************************)
C30_ClearRemovesPrefixedOnly ==
  [][ last'.fn = "clearTaxCalculatorStorage" =>
        /\ last'.args[1] # "denied" =>
             /\ DOMAIN localStorage' \cap CalculatorKeys = {}
             /\ \A k \in DOMAIN localStorage \ CalculatorKeys :
                  k \in DOMAIN localStorage' /\ localStorage'[k] = localStorage[k]
        /\ last'.args[1] = "denied" => localStorage' = localStorage
        /\ storedValue' = storedValue ]_vars

\* clearTaxCalculatorStorage has removed the keys of the calculator (the
\* hooks still hold the figures) and left the theme key of another script.
C30_Witness ==
  /\ last.fn = "clearTaxCalculatorStorage"
  /\ last.args[1] = "ok"
  /\ DOMAIN localStorage = {"theme"}
  /\ localStorage["theme"] = "\"dark\""
  /\ storedValue["priorYearTax"] = StringValue("5")
  /\ storedValue["filingStatus"] = StringValue("married")

====
